---- MODULE Spec2Model ----
(***************************************************************************)
(* A model of rslox: the lexer (src/src/lexer.rs), the token vocabulary    *)
(* (src/src/token/token.rs, operator.rs), the Pratt parser                 *)
(* (src/src/parser.rs), the binding-power tables, values and spans         *)
(* (src/src/token/tree.rs) and the interpreter (src/src/interpreter.rs,    *)
(* src/src/visitor.rs, src/src/main.rs).                                   *)
(*                                                                         *)
(* A source text is a sequence of characters; a character is a string.     *)
(* Every character is one byte long except the ones in MultiByte, so that  *)
(* the lexer's byte cursor and its character iterator are kept apart as    *)
(* the code keeps them apart.                                              *)
(***************************************************************************)
EXTENDS Integers, Sequences, FiniteSets, TLC

VARIABLES
    source_code,   \* Lexer.source_code: the text, a sequence of characters
    byte_offset,   \* Lexer.byte_offset: the cursor, in bytes
    result,        \* what the last call of next() returned
    peeked,        \* the last call of peek(): its result and the cursor it was called at,
                   \* Consumed once the next() after it has returned, NoCall otherwise
    history,       \* every result next() has returned so far, in order;
                   \* Interpreter: the atoms visit_atom has been called on, in order
    pc,            \* the position inside parse() / parse_stmt(), interpret() and main
    expr,          \* Parser: the result of the last parse_expr(0) of parse_stmt;
                   \* the expression handed to accept
    stmts,         \* Parser: the statements pushed so far by parse();
                   \* Interpreter: the tree interpret() goes through
    stmt_idx,      \* Interpreter: how many statements of the tree interpret() has visited
    output,        \* Interpreter: what interpret() has written to stdout and stderr, in order
    spans          \* the spans merge_span is applied to

vars == <<source_code, byte_offset, result, peeked, history, pc, expr, stmts,
          stmt_idx, output, spans>>

----------------------------------------------------------------------------
(* Bounds of the model *)

\* longest source text of the lexer specifications, in characters
MaxSrcLen == 4
\* longest source text of the operator-only specification, in characters:
\* over all fifteen operator characters, and over eight of them
MaxAllOpsLen == 2
MaxOpsLen == 3
\* most binary operators in a source text of the parser specifications: over
\* a family's core operators, and over all ten binary operators of C1
MaxOps == 3
MaxAllOps == 2
\* the greatest usize of the model of merge_span
UsizeMax == 3
\* the greatest Number among the atoms evaluated
MaxNum == 2
\* the most statements of a tree handed to interpret()
MaxStmts == 3
\* the most characters of a comment, and of the text after it
MaxCommentLen == 2
\* the most characters behind the first token of a statement
MaxTailLen == 2

----------------------------------------------------------------------------
(* Characters *)

AsciiDigit == {"0", "1", "2", "3", "4", "5", "6", "7", "8", "9"}

AsciiAlphabetic ==
    {"a", "b", "c", "d", "e", "f", "g", "h", "i", "j", "k", "l", "m",
     "n", "o", "p", "q", "r", "s", "t", "u", "v", "w", "x", "y", "z",
     "A", "B", "C", "D", "E", "F", "G", "H", "I", "J", "K", "L", "M",
     "N", "O", "P", "Q", "R", "S", "T", "U", "V", "W", "X", "Y", "Z"}

\* char::is_whitespace, on the characters the model uses
Whitespace == {" ", "\t", "\n", "\r"}

\* the characters of more than one byte: U+00E9, two bytes in UTF-8
MultiByte == {"U+00E9"}

\* char::len_utf8
Len8(c) == IF c \in MultiByte THEN 2 ELSE 1

\* str::len: the length of a text in bytes
RECURSIVE ByteLen(_)
ByteLen(s) == IF s = <<>> THEN 0 ELSE Len8(Head(s)) + ByteLen(Tail(s))

\* the number of characters of s that end at byte b, counted from the k-th
\* one, which ends at byte acc; -1 when b is inside a character or past the end
RECURSIVE CharIndexFrom(_, _, _, _)
CharIndexFrom(s, k, acc, b) ==
    IF acc = b THEN k
    ELSE IF acc > b \/ k >= Len(s) THEN -1
    ELSE CharIndexFrom(s, k + 1, acc + Len8(s[k + 1]), b)

\* b is a character boundary of s (str::is_char_boundary)
IsBoundary(s, b) == CharIndexFrom(s, 0, 0, b) >= 0

\* the number of characters of s before byte b, a character boundary
CharsBefore(s, b) == CharIndexFrom(s, 0, 0, b)

\* &s[b1..b2]: defined (no panic) only between two character boundaries
SliceOk(s, b1, b2) == b1 <= b2 /\ IsBoundary(s, b1) /\ IsBoundary(s, b2)

ByteSlice(s, b1, b2) == SubSeq(s, CharsBefore(s, b1) + 1, CharsBefore(s, b2))

\* Iterator::position over the characters of s after the first k ones:
\* the 0-based index of the first c, or -1 (None)
PositionFrom(s, k, c) ==
    IF \E i \in (k + 1)..Len(s) : s[i] = c
    THEN (CHOOSE i \in (k + 1)..Len(s) : s[i] = c /\ \A j \in (k + 1)..(i - 1) : s[j] # c) - (k + 1)
    ELSE -1

\* take_while(p).count() over the characters of s after the first k ones, p being membership of P
RECURSIVE TakeWhileCount(_, _, _)
TakeWhileCount(s, k, P) ==
    IF k < Len(s) /\ s[k + 1] \in P THEN 1 + TakeWhileCount(s, k + 1, P) ELSE 0

\* str::lines().count(): the lines of s, a final newline ending the last line
LinesCount(s) ==
    Cardinality({i \in 1..Len(s) : s[i] = "\n"})
        + (IF s # <<>> /\ s[Len(s)] # "\n" THEN 1 ELSE 0)

----------------------------------------------------------------------------
(* The token vocabulary: src/src/token/operator.rs, src/src/token/token.rs *)

\* Operator::try_from(&str): the lexemes that are operators
OperatorTable ==
    { [lex |-> <<"(">>, form |-> "Unary", name |-> "LeftParen"],
      [lex |-> <<")">>, form |-> "Unary", name |-> "RightParen"],
      [lex |-> <<"{">>, form |-> "Unary", name |-> "LeftBrace"],
      [lex |-> <<"}">>, form |-> "Unary", name |-> "RightBrace"],
      [lex |-> <<",">>, form |-> "Unary", name |-> "Comma"],
      [lex |-> <<".">>, form |-> "Unary", name |-> "Dot"],
      [lex |-> <<";">>, form |-> "Unary", name |-> "Selmicolon"],
      [lex |-> <<"+">>, form |-> "Unary", name |-> "Plus"],
      [lex |-> <<"-">>, form |-> "Unary", name |-> "Minus"],
      [lex |-> <<"*">>, form |-> "Unary", name |-> "Star"],
      [lex |-> <<"/">>, form |-> "Unary", name |-> "Slash"],
      [lex |-> <<"!">>, form |-> "Unary", name |-> "Bang"],
      [lex |-> <<"!", "=">>, form |-> "Binary", name |-> "BangEqual"],
      [lex |-> <<"<">>, form |-> "Binary", name |-> "Less"],
      [lex |-> <<"<", "=">>, form |-> "Binary", name |-> "LessEqual"],
      [lex |-> <<"=">>, form |-> "Binary", name |-> "Equal"],
      [lex |-> <<"=", "=">>, form |-> "Binary", name |-> "EqualEqual"],
      [lex |-> <<">">>, form |-> "Binary", name |-> "Greater"],
      [lex |-> <<">", "=">>, form |-> "Binary", name |-> "GreaterEqual"] }

OperatorLexemes == {e.lex : e \in OperatorTable}

IsOperator(value) == value \in OperatorLexemes

OperatorTryFrom(value) == CHOOSE e \in OperatorTable : e.lex = value

\* Keyword::try_from(&str): the sixteen keywords, matched exactly
KeywordTable ==
    { [lex |-> <<"a", "n", "d">>, name |-> "And"],
      [lex |-> <<"c", "l", "a", "s", "s">>, name |-> "Class"],
      [lex |-> <<"e", "l", "s", "e">>, name |-> "Else"],
      [lex |-> <<"f", "a", "l", "s", "e">>, name |-> "False"],
      [lex |-> <<"f", "u", "n">>, name |-> "Fun"],
      [lex |-> <<"f", "o", "r">>, name |-> "For"],
      [lex |-> <<"i", "f">>, name |-> "If"],
      [lex |-> <<"n", "i", "l">>, name |-> "Nil"],
      [lex |-> <<"o", "r">>, name |-> "Or"],
      [lex |-> <<"p", "r", "i", "n", "t">>, name |-> "Print"],
      [lex |-> <<"r", "e", "t", "u", "r", "n">>, name |-> "Return"],
      [lex |-> <<"s", "u", "p", "e", "r">>, name |-> "Super"],
      [lex |-> <<"t", "h", "i", "s">>, name |-> "This"],
      [lex |-> <<"t", "r", "u", "e">>, name |-> "True"],
      [lex |-> <<"v", "a", "r">>, name |-> "Var"],
      [lex |-> <<"w", "h", "i", "l", "e">>, name |-> "While"] }

KeywordLexemes == {e.lex : e \in KeywordTable}

IsKeyword(value) == value \in KeywordLexemes

KeywordTryFrom(value) == CHOOSE e \in KeywordTable : e.lex = value

\* the value of a digit
DigitVal(c) ==
    CASE c = "0" -> 0 [] c = "1" -> 1 [] c = "2" -> 2 [] c = "3" -> 3 [] c = "4" -> 4
      [] c = "5" -> 5 [] c = "6" -> 6 [] c = "7" -> 7 [] c = "8" -> 8 [] c = "9" -> 9

\* the value of a run of digits, 0 for the empty run
RECURSIVE DigitsVal(_)
DigitsVal(ds) ==
    IF ds = <<>> THEN 0 ELSE 10 * DigitsVal(SubSeq(ds, 1, Len(ds) - 1)) + DigitVal(ds[Len(ds)])

\* a run of fraction digits without its trailing zeros
RECURSIVE StripZeros(_)
StripZeros(ds) ==
    IF ds # <<>> /\ ds[Len(ds)] = "0" THEN StripZeros(SubSeq(ds, 1, Len(ds) - 1)) ELSE ds

\* str::parse::<f64> succeeds on a text of digits and dots exactly when it
\* has at least one digit and at most one dot ("5." and ".5" are numbers)
ParsesAsF64(value) ==
    /\ \E i \in 1..Len(value) : value[i] \in AsciiDigit
    /\ Cardinality({i \in 1..Len(value) : value[i] = "."}) <= 1

\* the f64 a text of digits and at most one dot denotes: its integer part
\* and its fraction digits (so that "1", "1." and "1.0" are the same value)
ParseF64(value) ==
    LET dots == {i \in 1..Len(value) : value[i] = "."}
        d    == IF dots = {} THEN Len(value) + 1 ELSE CHOOSE i \in dots : TRUE
    IN [int  |-> DigitsVal(SubSeq(value, 1, d - 1)),
        frac |-> StripZeros(SubSeq(value, d + 1, Len(value)))]

\* Literal::try_from(&str); "Err" for the two Err returns, "Panic" where unwrap() panics
LiteralTryFrom(value) ==
    IF value # <<>> /\ value[1] = "\""
    THEN IF value[Len(value)] = "\"" THEN [lit |-> "String"] ELSE [lit |-> "Err"]
    ELSE IF \A i \in 1..Len(value) : value[i] \in AsciiDigit \cup {"."}
    THEN IF ParsesAsF64(value) THEN [lit |-> "Number", num |-> ParseF64(value)]
         ELSE [lit |-> "Panic"]
    ELSE IF /\ value[1] \notin AsciiDigit
            /\ \A i \in 1..Len(value) : value[i] \in AsciiAlphabetic \cup AsciiDigit \cup {"_"}
    THEN [lit |-> "Identifier"]
    ELSE [lit |-> "Err"]

\* TokenType::from(&str): operator first, then keyword, then literal, else Invalid
TokenTypeFrom(value) ==
    IF IsOperator(value)
    THEN LET op == OperatorTryFrom(value) IN [cls |-> "Operator", form |-> op.form, name |-> op.name]
    ELSE IF IsKeyword(value)
    THEN [cls |-> "Keyword", name |-> KeywordTryFrom(value).name]
    ELSE LET l == LiteralTryFrom(value) IN
         IF l.lit = "Err" THEN [cls |-> "Invalid"]
         ELSE IF l.lit = "Panic" THEN [cls |-> "Panic"]
         ELSE IF l.lit = "Number" THEN [cls |-> "Literal", name |-> "Number", num |-> l.num]
         ELSE [cls |-> "Literal", name |-> l.lit]

----------------------------------------------------------------------------
(* The lexer: src/src/lexer.rs *)

\* the results of next() and peek(): Option<Result<Token, Error>>, and a panic
NoneRes == [kind |-> "None"]
PanicRes == [kind |-> "Panic"]
\* Token::new(ty, lexeme); `at` is where the borrowed lexeme slice starts in the source
OkRes(ty, lexeme, at) == [kind |-> "Ok", ty |-> ty, lexeme |-> lexeme, at |-> at]
\* Error::LexingError { ty, line }
ErrRes(ty, ch, line) == [kind |-> "Err", err |-> ty, ch |-> ch, line |-> line]

\* a faulty line(): the lines of the whole source, whatever the cursor
LineAt_WholeSource(src, off) == LinesCount(src)

\* Lexer::line(&self) on a lexer whose cursor is off
LineAt(src, off) == LinesCount(ByteSlice(src, 0, off))

\* is_punct
Punct == {"(", ")", "{", "}", ",", ".", ";", "+", "-", "*"}

\* a faulty token whose lexeme is sliced from the start of the source
Emit_FromStart(src, cur, off) ==
    IF ~SliceOk(src, cur, off) THEN [res |-> PanicRes, off |-> off]
    ELSE LET lexeme == ByteSlice(src, 0, off)
             ty     == TokenTypeFrom(lexeme)
         IN IF ty.cls = "Panic" THEN [res |-> PanicRes, off |-> off]
            ELSE [res |-> OkRes(ty, lexeme, cur), off |-> off]

\* lines 114..116: the token between cur and the cursor
Emit(src, cur, off) ==
    IF ~SliceOk(src, cur, off) THEN [res |-> PanicRes, off |-> off]
    ELSE LET lexeme == ByteSlice(src, cur, off)
             ty     == TokenTypeFrom(lexeme)
         IN IF ty.cls = "Panic" THEN [res |-> PanicRes, off |-> off]
            ELSE [res |-> OkRes(ty, lexeme, cur), off |-> off]

\* line 93: the characters take_while takes after the first digit of a number
NumberTail == AsciiDigit \cup {"."}

\* lines 91..104: the cursor after a number that starts at byte cur; the
\* iterator has taken k + 1 characters and the cursor is off1, one past cur.
\* -1 where the slice or the subtraction panics.
NumberEnd(src, k, cur, off1) ==
    LET len == TakeWhileCount(src, k + 1, NumberTail) + 1 IN
    IF ~SliceOk(src, cur, cur + len) THEN -1
    ELSE LET sl   == ByteSlice(src, cur, cur + len)
             dots == {i \in 1..Len(sl) : sl[i] = "."}
             d1   == CHOOSE i \in dots : \A j \in dots : i <= j
             d2   == CHOOSE i \in dots \ {d1} : \A j \in dots \ {d1} : i <= j
             one  == IF dots = {} THEN sl ELSE SubSeq(sl, 1, d1 - 1)
             two  == IF Cardinality(dots) >= 2 THEN SubSeq(sl, d1 + 1, d2 - 1)
                     ELSE SubSeq(sl, d1 + 1, Len(sl))
         IN IF Cardinality(dots) >= 2 THEN off1 + ByteLen(one) + ByteLen(two)
            ELSE IF Cardinality(dots) = 1 /\ two = <<>>
            THEN (IF one = <<>> THEN -1 ELSE off1 + ByteLen(one) - 1)
            ELSE off1 + len - 1

\* a faulty lookahead that never joins `=` to the operator before it
CompoundLen_Never(nxt) == 0

\* lines 52..55: what `!`, `=`, `<`, `>` add to the cursor, nxt being the peeked character
CompoundLen(nxt) == IF nxt = "=" THEN Len8(nxt) ELSE 0

\* line 71: the characters that begin an identifier or a keyword
IdentStart == AsciiAlphabetic \cup {"_"}

\* line 51: the characters that `=` may follow to make one operator
CompoundStart == {"!", "=", "<", ">"}

\* a faulty is_lit that lets no digit continue an identifier
IsLit_NoDigits == AsciiAlphabetic \cup {"_"}

\* lines 72..74: is_lit, the characters that continue an identifier
IsLit == AsciiAlphabetic \cup AsciiDigit \cup {"_"}

\* a faulty unterminated string that leaves the cursor just after the quote
UnterminatedEnd_AfterQuote(src, off1) == off1

\* line 83: the cursor after an unterminated string, off1 being one past the quote
UnterminatedEnd(src, off1) == ByteLen(src)

\* lines 43..118: the loop of next(), the iterator having taken the first k
\* characters of src and self.byte_offset being off. The value is the
\* result of next() and the cursor it leaves.
RECURSIVE Scan(_, _, _)
Scan(src, k, off) ==
    IF k >= Len(src) THEN [res |-> NoneRes, off |-> off]
    ELSE
    LET c    == src[k + 1]
        cur  == off
        off1 == off + Len8(c)
        nxt  == IF k + 1 < Len(src) THEN src[k + 2] ELSE "EOF"
    IN
    IF c \in Whitespace THEN Scan(src, k + 1, off1)
    ELSE IF c \in Punct THEN Emit(src, cur, off1)
    ELSE IF c \in CompoundStart
    THEN Emit(src, cur, off1 + CompoundLen(nxt))
    ELSE IF c = "/"
    THEN IF nxt = "/"
         THEN LET pos == PositionFrom(src, k + 1, "\n") IN
              IF pos >= 0 THEN Scan(src, k + 1 + pos + 1, off1 + pos + 1)
              ELSE [res |-> NoneRes, off |-> off1]
         ELSE Emit(src, cur, off1)
    ELSE IF c \in IdentStart
    THEN Emit(src, cur, off1 + TakeWhileCount(src, k + 1, IsLit))
    ELSE IF c = "\""
    THEN LET end == PositionFrom(src, k + 1, "\"") IN
         IF end >= 0 THEN Emit(src, cur, off1 + end + 1)
         ELSE [res |-> ErrRes("UnterminatedString", "none", LineAt(src, UnterminatedEnd(src, off1))),
               off |-> UnterminatedEnd(src, off1)]
    ELSE IF c \in AsciiDigit
    THEN LET e == NumberEnd(src, k, cur, off1) IN
         IF e < 0 THEN [res |-> PanicRes, off |-> off1] ELSE Emit(src, cur, e)
    ELSE IF ~IsBoundary(src, off1) THEN [res |-> PanicRes, off |-> off1]
    ELSE [res |-> ErrRes("UnexpectedCharacter", c, LineAt(src, off1)), off |-> off1]

\* Iterator::next for Lexer, lines 33..119, on a lexer (src, off)
LexerNext(src, off) ==
    IF ~IsBoundary(src, off) THEN [res |-> PanicRes, off |-> off]
    ELSE Scan(src, CharsBefore(src, off), off)

\* a faulty peek() that calls next() on the lexer itself, not on a clone
LexerPeek_NoClone(src, off) == LexerNext(src, off)

\* Lexer::peek, lines 24..27: next() on a clone; the lexer itself is not touched
LexerPeek(src, off) == [res |-> LexerNext(src, off).res, off |-> off]

----------------------------------------------------------------------------
(* The lexer as a state machine: a caller that calls next() and peek() *)

\* no call yet
NoCall == [kind |-> "NoCall"]

\* the source texts of at most n characters over the characters of A
Texts(A, n) == UNION {[1..m -> A] : m \in 0..n}

\* Lexer::new(stream), lines 13..18, the stream drawn from T
LexInit(T) ==
    /\ source_code \in T
    /\ byte_offset = 0
    /\ result = NoCall
    /\ peeked = NoCall
    /\ history = <<>>
    /\ pc = "lexing"
    /\ expr = NoCall
    /\ stmts = <<>>
    /\ stmt_idx = 0
    /\ output = <<>>
    /\ spans = <<>>

\* a call of next(). The caller may go on calling after None or an error,
\* but not after a panic; it makes at most two calls more than the text has bytes.
CallNext ==
    /\ pc = "lexing"
    /\ result.kind # "Panic"
    /\ Len(history) <= ByteLen(source_code) + 1
    /\ LET r == LexerNext(source_code, byte_offset) IN
         /\ byte_offset' = r.off
         /\ result' = r.res
         /\ history' = Append(history, r.res)
    /\ peeked' = IF peeked.kind = "Peeked"
                 THEN [kind |-> "Consumed", res |-> peeked.res, at |-> peeked.at]
                 ELSE NoCall
    /\ UNCHANGED <<stmt_idx, output, spans>>
    /\ UNCHANGED <<source_code, pc, expr, stmts>>

\* a call of peek()
CallPeek ==
    /\ pc = "lexing"
    /\ result.kind # "Panic"
    /\ LET r == LexerPeek(source_code, byte_offset) IN
         /\ byte_offset' = r.off
         /\ peeked' = [kind |-> "Peeked", res |-> r.res, at |-> byte_offset]
    /\ UNCHANGED <<stmt_idx, output, spans>>
    /\ UNCHANGED <<source_code, result, history, pc, expr, stmts>>

LexNext == CallNext \/ CallPeek

\* the step is a call of next()
IsNextCall == history' # history

\* the characters and the specification of each group of lexer claims
NumChars == {"1", "2", ".", " "}
CommentChars == {"/", "\n", "a", "="}
OpChars == {"(", ")", "{", "}", ",", ".", ";", "+", "-", "*", "/", "!", "=", "<", ">"}
CoreOpChars == {"(", ".", "-", "/", "!", "=", "<", ">"}
StrChars == {"\"", "a", " ", "\n"}
UnexpChars == {"@", "U+00E9", "\n", "a", " "}
IdentChars == {"o", "r", "O", "_", "1", " "}
MixedChars == {"a", "1", "/", "\n", "\"", "@"}

SpecNum == LexInit(Texts(NumChars, MaxSrcLen)) /\ [][LexNext]_vars
SpecComment == LexInit(Texts(CommentChars, MaxSrcLen)) /\ [][LexNext]_vars
SpecOps ==
    LexInit(Texts(OpChars, MaxAllOpsLen) \cup Texts(CoreOpChars, MaxOpsLen)) /\ [][LexNext]_vars
SpecStr == LexInit(Texts(StrChars, MaxSrcLen)) /\ [][LexNext]_vars
SpecUnexp == LexInit(Texts(UnexpChars, MaxSrcLen)) /\ [][LexNext]_vars
SpecIdent == LexInit(Texts(IdentChars, MaxSrcLen)) /\ [][LexNext]_vars
SpecLex == LexInit(Texts(MixedChars, MaxSrcLen)) /\ [][LexNext]_vars

----------------------------------------------------------------------------
(* Claims about the lexer *)

\* the index of the first character after the first k ones that is not
\* whitespace, 0 when there is none
SkipWs(src, k) ==
    IF \E j \in (k + 1)..Len(src) : src[j] \notin Whitespace
    THEN CHOOSE j \in (k + 1)..Len(src) :
            src[j] \notin Whitespace /\ \A i \in (k + 1)..(j - 1) : src[i] \in Whitespace
    ELSE 0

IsOkRes(r) == r.kind = "Ok"
IsNumberToken(r) == r.kind = "Ok" /\ r.ty.cls = "Literal" /\ r.ty.name = "Number"
IsStringToken(r) == r.kind = "Ok" /\ r.ty.cls = "Literal" /\ r.ty.name = "String"
IsUnterminated(r) == r.kind = "Err" /\ r.err = "UnterminatedString"
IsUnexpected(r) == r.kind = "Err" /\ r.err = "UnexpectedCharacter"

\* digits, optionally followed by one dot and at least one digit
NumberShape(l) ==
    /\ l # <<>>
    /\ \A i \in 1..Len(l) : l[i] \in AsciiDigit \cup {"."}
    /\ Cardinality({i \in 1..Len(l) : l[i] = "."}) <= 1
    /\ l[1] \in AsciiDigit
    /\ l[Len(l)] \in AsciiDigit

\* C4: every Number token's lexeme is a run of digits optionally followed by
\* one dot and at least one digit; a number lexeme never ends with a dot.
C4_NumberLexeme == IsNumberToken(result) => NumberShape(result.lexeme)

\* C5: once next() has returned None (a comment that runs to the end of the
\* input included), every later call of next() returns None.
C5_NoneIsFinal == [][IsNextCall /\ result = NoneRes => result' = NoneRes]_vars

\* the tokens of the history tile the source text from its start, each an
\* operator, two characters long exactly when one of ! = < > is followed by =
GreedyOperators(src, h) ==
    LET toks == SelectSeq(h, IsOkRes) IN
    /\ \A i \in 1..Len(h) : h[i].kind \in {"Ok", "None"}
    /\ \A i \in 1..Len(toks) :
         LET t == toks[i] IN
         /\ t.ty.cls = "Operator"
         /\ t.at = IF i = 1 THEN 0 ELSE toks[i - 1].at + Len(toks[i - 1].lexeme)
         /\ Len(t.lexeme) = IF /\ src[t.at + 1] \in {"!", "=", "<", ">"}
                                /\ t.at + 2 <= Len(src)
                                /\ src[t.at + 2] = "="
                             THEN 2 ELSE 1
         /\ t.lexeme = SubSeq(src, t.at + 1, t.at + Len(t.lexeme))
    /\ \A i \in 1..Len(h) : h[i].kind = "None" =>
         /\ \A j \in (i + 1)..Len(h) : h[j].kind = "None"
         /\ IF toks = <<>> THEN src = <<>>
            ELSE toks[Len(toks)].at + Len(toks[Len(toks)].lexeme) = Len(src)

NoDoubleSlash(src) == \A i \in 1..(Len(src) - 1) : ~(src[i] = "/" /\ src[i + 1] = "/")

\* C6 as stated: on any concatenation of operators every result of next()
\* before the end is an Ok operator token, formed greedily, and every
\* character belongs to exactly one token.
C6_AnyOperators == GreedyOperators(source_code, history)

\* C6 as amended: the same on the concatenations of operators in which no `/`
\* is immediately followed by `/` (two slashes start a line comment).
C6_Operators == NoDoubleSlash(source_code) => GreedyOperators(source_code, history)

C6_Witness ==
    /\ source_code = <<"<", "=", "/">>
    /\ Len(history) = 3
    /\ history[1].kind = "Ok" /\ history[1].lexeme = <<"<", "=">>
    /\ history[2].kind = "Ok" /\ history[2].lexeme = <<"/">>
    /\ history[3] = NoneRes

\* the n-th `"` of src
QuoteAt(src, n) ==
    CHOOSE i \in 1..Len(src) :
        src[i] = "\"" /\ Cardinality({j \in 1..i : src[j] = "\""}) = n

QuoteCount(src) == Cardinality({i \in 1..Len(src) : src[i] = "\""})

\* the terminated string literals of a text that has no comment: the quotes paired in order
ExpectedStrings(src) ==
    [n \in 1..(QuoteCount(src) \div 2) |-> SubSeq(src, QuoteAt(src, 2 * n - 1), QuoteAt(src, 2 * n))]

LexemesOf(toks) == [i \in 1..Len(toks) |-> toks[i].lexeme]

\* C7: a `"` with no later `"` gives Err(UnterminatedString) and moves the
\* cursor to the end of the source, every later next() returns None, and
\* the string literals terminated before it are the Ok String tokens, in order.
C7_Unterminated ==
    /\ \A i \in 1..Len(history) : IsUnterminated(history[i]) =>
         \A j \in (i + 1)..Len(history) : history[j] = NoneRes
    /\ (\E i \in 1..Len(history) : IsUnterminated(history[i])) =>
         byte_offset = ByteLen(source_code)
    /\ (result = NoneRes \/ IsUnterminated(result)) =>
         /\ LexemesOf(SelectSeq(history, IsStringToken)) = ExpectedStrings(source_code)
         /\ (QuoteCount(source_code) % 2 = 1) <=> (\E i \in 1..Len(history) : IsUnterminated(history[i]))

C7_Witness ==
    /\ source_code = <<"\"", "\"", "\"", "a">>
    /\ Len(history) = 3
    /\ IsStringToken(history[1])
    /\ IsUnterminated(history[2])
    /\ history[3] = NoneRes

\* the characters that begin a token
TokenStart ==
    Punct \cup {"!", "=", "<", ">", "/", "\""} \cup AsciiAlphabetic \cup {"_"} \cup AsciiDigit

NewlinesIn(s) == Cardinality({i \in 1..Len(s) : s[i] = "\n"})

\* C8: a call of next() that meets, after whitespace, a character that begins
\* no token returns Err(UnexpectedCharacter(c)) with that character and the
\* line 1 + the newlines before it, and leaves the cursor right after it.
C8_Unexpected ==
    [][IsNextCall /\ IsBoundary(source_code, byte_offset) =>
        LET j == SkipWs(source_code, CharsBefore(source_code, byte_offset)) IN
        (j > 0 /\ source_code[j] \notin TokenStart) =>
            /\ result' = ErrRes("UnexpectedCharacter", source_code[j],
                                1 + NewlinesIn(SubSeq(source_code, 1, j - 1)))
            /\ byte_offset' = ByteLen(SubSeq(source_code, 1, j))]_vars

\* the lexer went on after the error: a two-byte unexpected character on line 2, then a token
C8_Witness ==
    /\ source_code = <<"\n", "U+00E9", "a">>
    /\ Len(history) = 2
    /\ history[1] = ErrRes("UnexpectedCharacter", "U+00E9", 2)
    /\ result.kind = "Ok" /\ result.lexeme = <<"a">> /\ result.at = 3

\* C9: peek() leaves the cursor where it was, and the next() that follows a
\* peek() returns what the peek() returned.
C9_PeekIsNext ==
    /\ peeked.kind = "Peeked" => byte_offset = peeked.at
    /\ peeked.kind = "Consumed" => result = peeked.res

C9_Witness ==
    /\ peeked.kind = "Consumed"
    /\ peeked.at > 0
    /\ result.kind = "Ok"
    /\ byte_offset > peeked.at

\* C10: a call of next() that meets, after whitespace, a letter or `_` returns
\* the whole maximal run of letters, digits and `_` as one token: a Keyword
\* exactly when the run is one of the keywords, otherwise an Identifier.
C10_IdentifierRun ==
    [][IsNextCall /\ IsBoundary(source_code, byte_offset) =>
        LET j == SkipWs(source_code, CharsBefore(source_code, byte_offset)) IN
        (j > 0 /\ source_code[j] \in AsciiAlphabetic \cup {"_"}) =>
            LET e   == j + TakeWhileCount(source_code, j, AsciiAlphabetic \cup AsciiDigit \cup {"_"})
                run == SubSeq(source_code, j, e)
            IN /\ result'.kind = "Ok"
               /\ result'.lexeme = run
               /\ result'.at = ByteLen(SubSeq(source_code, 1, j - 1))
               /\ byte_offset' = ByteLen(SubSeq(source_code, 1, e))
               /\ IF \E kw \in KeywordTable : kw.lex = run
                  THEN result'.ty.cls = "Keyword"
                  ELSE result'.ty = [cls |-> "Literal", name |-> "Identifier"]]_vars

\* a keyword that is only the prefix of a run is part of one Identifier
C10_Witness ==
    /\ source_code = <<"o", "r", "1">>
    /\ Len(history) = 1
    /\ result.ty = [cls |-> "Literal", name |-> "Identifier"]
    /\ result.lexeme = <<"o", "r", "1">>

----------------------------------------------------------------------------
(* Op and its binding powers: src/src/token/tree.rs *)

\* a faulty prefix table that gives every prefix operator the power of print
PrefixBindingPower_Loose(op) ==
    IF op \in {"Print", "Return", "Bang", "Plus", "Minus"} THEN 1 ELSE 0

\* Op::prefix_binding_power, lines 371..377: the right power, 0 for None
PrefixBindingPower(op) ==
    IF op \in {"Print", "Return"} THEN 1
    ELSE IF op \in {"Bang", "Plus", "Minus"} THEN 11
    ELSE 0

\* a faulty postfix table that knows no postfix operator
PostfixBindingPower_None(op) == 0

\* Op::postfix_binding_power, lines 379..386: the left power, 0 for None
PostfixBindingPower(op) == IF op = "Bang" THEN 11 ELSE 0

\* a faulty binding-power table in which `*` and `/` are no tighter than `+`
\* and `-`: C1 distinguishes the table of the code from it
InfixBindingPower_FlatArith(op) ==
    IF op = "Equal" THEN <<2, 1>>
    ELSE IF op \in {"BangEqual", "EqualEqual", "Less", "LessEqual", "Greater", "GreaterEqual"}
    THEN <<5, 6>>
    ELSE IF op \in {"Plus", "Minus", "Star", "Slash"} THEN <<7, 8>>
    ELSE IF op = "Dot" THEN <<14, 13>>
    ELSE <<0, 0>>

\* a faulty binding-power table in which `=` groups left to right: C3
\* distinguishes the table of the code from it
InfixBindingPower_LeftAssign(op) ==
    IF op = "Equal" THEN <<1, 2>>
    ELSE IF op \in {"BangEqual", "EqualEqual", "Less", "LessEqual", "Greater", "GreaterEqual"}
    THEN <<5, 6>>
    ELSE IF op \in {"Plus", "Minus"} THEN <<7, 8>>
    ELSE IF op \in {"Star", "Slash"} THEN <<9, 10>>
    ELSE IF op = "Dot" THEN <<14, 13>>
    ELSE <<0, 0>>

\* Op::infix_binding_power, lines 388..404: <<left, right>>, <<0, 0>> for None
InfixBindingPower(op) ==
    IF op = "Equal" THEN <<2, 1>>
    ELSE IF op \in {"BangEqual", "EqualEqual", "Less", "LessEqual", "Greater", "GreaterEqual"}
    THEN <<5, 6>>
    ELSE IF op \in {"Plus", "Minus"} THEN <<7, 8>>
    ELSE IF op \in {"Star", "Slash"} THEN <<9, 10>>
    ELSE IF op = "Dot" THEN <<14, 13>>
    ELSE <<0, 0>>

\* TryFrom<Operator> for Op, lines 407..460: the lexical operators that are an Op
\* (the Op has the operator's name)
OpFromOperator == {"Dot", "Minus", "Plus", "Star", "Slash", "Bang",
                   "Equal", "BangEqual", "EqualEqual", "Less", "LessEqual",
                   "Greater", "GreaterEqual"}

----------------------------------------------------------------------------
(* The parser: src/src/parser.rs *)

\* Token::span(): where the lexeme lies in the source
TokenSpan(tok) == [offset |-> tok.at, length |-> ByteLen(tok.lexeme)]

\* Token::unescape, token.rs lines 212..214: trim_matches('"')
RECURSIVE TrimQuotes(_)
TrimQuotes(l) ==
    IF l # <<>> /\ l[1] = "\"" THEN TrimQuotes(Tail(l))
    ELSE IF l # <<>> /\ l[Len(l)] = "\"" THEN TrimQuotes(SubSeq(l, 1, Len(l) - 1))
    ELSE l

\* the nodes of Expr
AtomNode(kind) == [node |-> "Atom", kind |-> kind]
IdentNode(lexeme) == [node |-> "Atom", kind |-> "Ident", lexeme |-> lexeme]
StringNode(text) == [node |-> "Atom", kind |-> "String", text |-> text]
NumberNode(num) == [node |-> "Atom", kind |-> "Number", num |-> num]
BoolNode(b) == [node |-> "Atom", kind |-> "Bool", b |-> b]
UnaryNode(op, e) == [node |-> "Unary", op |-> op, expr |-> e]
BinaryNode(l, op, r) == [node |-> "Binary", left |-> l, op |-> op, right |-> r]
GroupNode(e) == [node |-> "Group", expr |-> e]

\* the results of parse_expr and expect, each with the cursor it leaves
POk(e, off) == [ok |-> TRUE, expr |-> e, off |-> off]
PErr(err, off) == [ok |-> FALSE, err |-> err, off |-> off]

\* Error::ParseError(ParseError::new(source, kind, span))
ParseError(kind, what, span) == [fam |-> "ParseError", kind |-> kind, what |-> what, span |-> span]
\* an error of the lexer, passed on
LexError(r) == [fam |-> "LexingError", kind |-> r.kind, res |-> r]

\* Lexer::expect(ty) for an operator, r being what next() returned: the
\* token must be that operator
ExpectOn(name, r) ==
    IF r.res.kind = "Ok"
    THEN IF r.res.ty.cls = "Operator" /\ r.res.ty.name = name
         THEN POk(r.res, r.off)
         ELSE PErr([fam |-> "LexingError", kind |-> "UnexpectedToken",
                    expected |-> name, found |-> r.res.ty], r.off)
    ELSE IF r.res.kind = "None"
    THEN PErr([fam |-> "UnexpectedEndOfInput", expected |-> name], r.off)
    ELSE PErr(LexError(r.res), r.off)

\* Lexer::expect(ty) on a lexer (src, off)
LexerExpect(src, off, name) == ExpectOn(name, LexerNext(src, off))

\* lines 172 and 185: self.lexer.next() takes the token peek() showed; the
\* cursor it leaves
AfterNext(src, off) == LexerNext(src, off).off

RECURSIVE ParseExpr(_, _, _)
RECURSIVE ParseLoop(_, _, _, _)

\* lines 84..88 and 118..122: a prefix operator or keyword op, rhs being what
\* parse_expr(r_bp) returned for its operand
ParsePrefix(op, rhs) ==
    IF rhs.ok THEN POk(UnaryNode(op, rhs.expr), rhs.off) ELSE rhs

\* a faulty group that takes whatever token follows for its `)`
ParseGroupClose_AnyToken(inner, close) ==
    IF close.ok \/ close.err.fam = "LexingError" THEN POk(GroupNode(inner.expr), close.off)
    ELSE close

\* lines 102..106: the `)` of a group, close being what expect returned
ParseGroupClose(inner, close) ==
    IF close.ok THEN POk(GroupNode(inner.expr), close.off) ELSE close

\* lines 100..106: a group, inner being what parse_expr(0) returned after the `(`
ParseGroup(src, inner) ==
    IF ~inner.ok THEN inner
    ELSE ParseGroupClose(inner, LexerExpect(src, inner.off, "RightParen"))

\* lines 62..139: the expression a first token begins, tok being the token
\* and off the cursor after it
ParsePrimary(src, tok, off) ==
    LET ty == tok.ty IN
    IF ty.cls = "Literal"
    THEN POk(IF ty.name = "String" THEN StringNode(TrimQuotes(tok.lexeme))
             ELSE IF ty.name = "Identifier" THEN IdentNode(tok.lexeme)
             ELSE NumberNode(ty.num), off)
    ELSE IF ty.cls = "Keyword"
    THEN IF ty.name = "True" THEN POk(BoolNode(TRUE), off)
         ELSE IF ty.name = "False" THEN POk(BoolNode(FALSE), off)
         ELSE IF ty.name \in {"Nil", "This", "Super"} THEN POk(AtomNode(ty.name), off)
         ELSE IF ty.name \in {"Print", "Return"}
         THEN ParsePrefix(ty.name, ParseExpr(src, off, PrefixBindingPower(ty.name)))
         ELSE PErr(ParseError("UnexpectedKeyword", ty.name, TokenSpan(tok)), off)
    ELSE IF ty.cls = "Operator" /\ ty.form = "Unary"
    THEN IF ty.name = "LeftParen" THEN ParseGroup(src, ParseExpr(src, off, 0))
         ELSE IF ty.name \in {"Bang", "Minus", "Plus"}
         THEN ParsePrefix(ty.name, ParseExpr(src, off, PrefixBindingPower(ty.name)))
         ELSE PErr(ParseError("InvalidExpression", tok.lexeme, TokenSpan(tok)), off)
    ELSE PErr(ParseError("UnexpectedToken", tok.lexeme, TokenSpan(tok)), off)

\* lines 62..201: parse_expr after its first token, lhs being what that token began
ParseAfterPrimary(src, min_bp, lhs) ==
    IF lhs.ok THEN ParseLoop(src, lhs.off, lhs.expr, min_bp) ELSE lhs

\* a faulty parse_expr that reports the end of the input as a span from the
\* start of the source
ParseFirst_FromStart(src, min_bp, r) ==
    IF r.res.kind = "Ok"
    THEN ParseAfterPrimary(src, min_bp, ParsePrimary(src, r.res, r.off))
    ELSE IF r.res.kind = "None"
    THEN PErr(ParseError("InvalidExpression", <<>>, [offset |-> 0, length |-> r.off]), r.off)
    ELSE PErr(LexError(r.res), r.off)

\* a faulty parse_expr that takes the end of the input for nil
ParseFirst_NilAtEnd(src, min_bp, r) ==
    IF r.res.kind = "Ok"
    THEN ParseAfterPrimary(src, min_bp, ParsePrimary(src, r.res, r.off))
    ELSE IF r.res.kind = "None"
    THEN POk(AtomNode("Nil"), r.off)
    ELSE PErr(LexError(r.res), r.off)

\* lines 50..61: parse_expr takes its first token, r being what next() returned
ParseFirst(src, min_bp, r) ==
    IF r.res.kind = "Ok"
    THEN ParseAfterPrimary(src, min_bp, ParsePrimary(src, r.res, r.off))
    ELSE IF r.res.kind = "None"
    THEN PErr(ParseError("InvalidExpression", <<>>, [offset |-> r.off, length |-> 0]), r.off)
    ELSE PErr(LexError(r.res), r.off)

\* lines 49..201: parse_expr(min_bp) on a parser whose lexer is (src, off)
ParseExpr(src, off, min_bp) == ParseFirst(src, min_bp, LexerNext(src, off))

\* lines 187..194: an infix operator op, rhs being what parse_expr(r_bp)
\* returned for its right operand
ParseInfix(src, lhs, op, min_bp, rhs) ==
    IF rhs.ok THEN ParseLoop(src, rhs.off, BinaryNode(lhs, op, rhs.expr), min_bp) ELSE rhs

\* a faulty operator loop that does not stop at `;`
ParseOp_SemiNotEnd(src, off, lhs, min_bp, p) ==
    IF p.kind = "None" THEN POk(lhs, off)
    ELSE IF p.kind # "Ok" THEN PErr(LexError(p), off)
    ELSE IF p.ty.cls = "Operator" /\ p.ty.name = "RightParen" THEN POk(lhs, off)
    ELSE IF p.ty.cls # "Operator"
    THEN PErr(ParseError("UnexpectedToken", p.lexeme, TokenSpan(p)), off)
    ELSE IF p.ty.name \notin OpFromOperator
    THEN PErr(ParseError("UnsupportedOperator", p.ty.name, TokenSpan(p)), off)
    ELSE IF PostfixBindingPower(p.ty.name) # 0
    THEN IF PostfixBindingPower(p.ty.name) < min_bp THEN POk(lhs, off)
         ELSE ParseLoop(src, AfterNext(src, off), UnaryNode(p.ty.name, lhs), min_bp)
    ELSE IF InfixBindingPower(p.ty.name) = <<0, 0>> THEN POk(lhs, off)
    ELSE IF InfixBindingPower(p.ty.name)[1] < min_bp THEN POk(lhs, off)
    ELSE ParseInfix(src, lhs, p.ty.name, min_bp,
                    ParseExpr(src, AfterNext(src, off), InfixBindingPower(p.ty.name)[2]))

\* lines 142..198: one turn of the operator loop, p being what peek() returned
ParseOp(src, off, lhs, min_bp, p) ==
    IF p.kind = "None" THEN POk(lhs, off)
    ELSE IF p.kind # "Ok" THEN PErr(LexError(p), off)
    ELSE IF p.ty.cls = "Operator" /\ p.ty.name \in {"RightParen", "Selmicolon"} THEN POk(lhs, off)
    ELSE IF p.ty.cls # "Operator"
    THEN PErr(ParseError("UnexpectedToken", p.lexeme, TokenSpan(p)), off)
    ELSE IF p.ty.name \notin OpFromOperator
    THEN PErr(ParseError("UnsupportedOperator", p.ty.name, TokenSpan(p)), off)
    ELSE LET op == p.ty.name IN
    IF PostfixBindingPower(op) # 0
    THEN IF PostfixBindingPower(op) < min_bp THEN POk(lhs, off)
         ELSE ParseLoop(src, AfterNext(src, off), UnaryNode(op, lhs), min_bp)
    ELSE IF InfixBindingPower(op) # <<0, 0>>
    THEN IF InfixBindingPower(op)[1] < min_bp THEN POk(lhs, off)
         ELSE ParseInfix(src, lhs, op, min_bp,
                         ParseExpr(src, AfterNext(src, off), InfixBindingPower(op)[2]))
    ELSE POk(lhs, off)

\* lines 141..200: the operator loop, the accumulated left-hand side being lhs
ParseLoop(src, off, lhs, min_bp) == ParseOp(src, off, lhs, min_bp, LexerPeek(src, off).res)

(* The parser as a state machine: parse(), lines 32..38, and parse_stmt(), lines 41..47 *)

\* Parser::new(source), lines 27..30, the source drawn from T
ParseInit(T) ==
    /\ source_code \in T
    /\ byte_offset = 0
    /\ result = NoCall
    /\ peeked = NoCall
    /\ history = <<>>
    /\ pc = "parse"
    /\ expr = NoCall
    /\ stmts = <<>>
    /\ stmt_idx = 0
    /\ output = <<>>
    /\ spans = <<>>

\* lines 34..35 and 42: the loop of parse() finds a token left and parse_stmt
\* calls parse_expr(0); an error ends parse()
ParseStmtExpr ==
    /\ pc = "parse"
    /\ LexerPeek(source_code, byte_offset).res.kind # "None"
    /\ \E r \in {ParseExpr(source_code, byte_offset, 0)} :
         /\ byte_offset' = r.off
         /\ IF r.ok
            THEN /\ expr' = r.expr
                 /\ pc' = "expect"
                 /\ result' = result
            ELSE /\ expr' = NoCall
                 /\ pc' = "done"
                 /\ result' = [kind |-> "ParseErr", stage |-> "parse_expr", err |-> r.err]
    /\ UNCHANGED <<stmt_idx, output, spans>>
    /\ UNCHANGED <<source_code, peeked, history, stmts>>

\* lines 43..46 and 35: parse_stmt expects the `;` and parse() pushes the statement
ParseStmtExpect ==
    /\ pc = "expect"
    /\ \E r \in {LexerExpect(source_code, byte_offset, "Selmicolon")} :
         /\ byte_offset' = r.off
         /\ IF r.ok
            THEN /\ stmts' = Append(stmts, [stmt |-> "Expr", expr |-> expr])
                 /\ pc' = "parse"
                 /\ result' = result
            ELSE /\ stmts' = stmts
                 /\ pc' = "done"
                 /\ result' = [kind |-> "ParseErr", stage |-> "expect", err |-> r.err]
    /\ expr' = NoCall
    /\ UNCHANGED <<stmt_idx, output, spans>>
    /\ UNCHANGED <<source_code, peeked, history>>

\* lines 34 and 37: no token is left and parse() returns the tree
ParseReturn ==
    /\ pc = "parse"
    /\ LexerPeek(source_code, byte_offset).res.kind = "None"
    /\ pc' = "done"
    /\ result' = [kind |-> "ParseOk", tree |-> stmts]
    /\ UNCHANGED <<stmt_idx, output, spans>>
    /\ UNCHANGED <<source_code, byte_offset, peeked, history, expr, stmts>>

ParseNext == ParseStmtExpr \/ ParseStmtExpect \/ ParseReturn

\* the source texts of the parser specifications: a chain of one-letter
\* identifiers a, b, c, ... separated by binary operators drawn from Ops,
\* after an optional prefix operator drawn from Pre, with or without the `;`
Letters == <<"a", "b", "c", "d", "e", "f", "g">>

RECURSIVE Flatten(_)
Flatten(toks) == IF toks = <<>> THEN <<>> ELSE Head(toks) \o Flatten(Tail(toks))

ChainToks(ops) ==
    [i \in 1..(2 * Len(ops) + 1) |-> IF i % 2 = 1 THEN <<Letters[(i + 1) \div 2]>> ELSE ops[i \div 2]]

Chains(Pre, Ops, n) ==
    {Flatten(pre \o ChainToks(ops) \o term) :
        pre \in {<<>>} \cup {<<p>> : p \in Pre},
        ops \in UNION {[1..m -> Ops] : m \in 0..n},
        term \in {<<>>, << <<";">> >>}}

PrecOps == {<<"*">>, <<"/">>, <<"+">>, <<"-">>, <<"=", "=">>, <<"!", "=">>,
            <<"<">>, <<"<", "=">>, <<">">>, <<">", "=">>}
CorePrecOps == {<<"*">>, <<"+">>, <<"-">>, <<"<">>, <<"=", "=">>}
DotOps == {<<".">>, <<"*">>, <<"+">>, <<"<">>}
DotPrefixes == {<<"-">>, <<"!">>, <<"+">>}
AssignOps == {<<"=">>, <<"=", "=">>, <<"<">>, <<"+">>, <<"*">>, <<".">>}

SpecPrec ==
    /\ ParseInit(Chains({}, PrecOps, MaxAllOps) \cup Chains({}, CorePrecOps, MaxOps))
    /\ [][ParseNext]_vars
SpecDot == ParseInit(Chains(DotPrefixes, DotOps, MaxOps)) /\ [][ParseNext]_vars
SpecAssign == ParseInit(Chains({}, AssignOps, MaxOps)) /\ [][ParseNext]_vars

----------------------------------------------------------------------------
(* Claims about the parser *)

\* the lexemes of the tokens of src from byte off on, up to the first `;`
RECURSIVE ExprToksFrom(_, _)
ExprToksFrom(src, off) ==
    LET r == LexerNext(src, off) IN
    IF r.res.kind # "Ok" \/ r.res.lexeme = <<";">> THEN <<>>
    ELSE <<r.res.lexeme>> \o ExprToksFrom(src, r.off)

ExprToks(src) == ExprToksFrom(src, 0)

\* how tight an operator groups according to the specification's table, the
\* tightest highest: `=`, the comparisons, `+ -`, `* /`, the prefix
\* operators (5), `.`
GroupLevel(lex) ==
    IF lex = <<"=">> THEN 1
    ELSE IF lex \in {<<"=", "=">>, <<"!", "=">>, <<"<">>, <<"<", "=">>, <<">">>, <<">", "=">>} THEN 2
    ELSE IF lex \in {<<"+">>, <<"-">>} THEN 3
    ELSE IF lex \in {<<"*">>, <<"/">>} THEN 4
    ELSE 6

\* the tree the specification gives a chain of tokens: the root is the
\* loosest binary operator, the rightmost of its level (the leftmost for
\* `=`, which groups right to left), and a leading prefix operator takes
\* what follows it when only tighter operators follow
RECURSIVE RefTree(_)
RefTree(toks) ==
    LET bin == {i \in 2..(Len(toks) - 1) : IsOperator(toks[i]) /\ ~IsOperator(toks[i - 1])} IN
    IF bin = {}
    THEN IF IsOperator(toks[1])
         THEN UnaryNode(OperatorTryFrom(toks[1]).name, RefTree(Tail(toks)))
         ELSE IdentNode(toks[1])
    ELSE LET lvl  == CHOOSE l \in {GroupLevel(toks[i]) : i \in bin} :
                        \A i \in bin : l <= GroupLevel(toks[i])
             cand == {i \in bin : GroupLevel(toks[i]) = lvl}
             root == IF lvl = 1 THEN CHOOSE i \in cand : \A j \in cand : i <= j
                     ELSE CHOOSE i \in cand : \A j \in cand : i >= j
         IN IF IsOperator(toks[1]) /\ lvl > 5
            THEN UnaryNode(OperatorTryFrom(toks[1]).name, RefTree(Tail(toks)))
            ELSE BinaryNode(RefTree(SubSeq(toks, 1, root - 1)),
                            OperatorTryFrom(toks[root]).name,
                            RefTree(SubSeq(toks, root + 1, Len(toks))))

\* parse_expr itself did not fail
ParseExprSucceeds == (pc = "done" /\ result.kind = "ParseErr") => result.stage = "expect"

\* C1: in a chain of atoms separated by binary operators, `*` and `/` group
\* tighter than `+` and `-`, which group tighter than the comparisons, and
\* operators of one level group left to right.
C1_Precedence ==
    (\A i \in 1..Len(source_code) : source_code[i] # ".") =>
        /\ ParseExprSucceeds
        /\ pc = "expect" => expr = RefTree(ExprToks(source_code))

\* a - b - c * d is ((a - b) - (c * d))
C1_Witness ==
    /\ pc = "expect"
    /\ expr = BinaryNode(BinaryNode(IdentNode(<<"a">>), "Minus", IdentNode(<<"b">>)),
                         "Minus",
                         BinaryNode(IdentNode(<<"c">>), "Star", IdentNode(<<"d">>)))

\* C2: `.` binds tighter than every other operator, the prefix ones
\* included, and chains of `.` group left to right.
C2_DotLeftTightest ==
    /\ ParseExprSucceeds
    /\ pc = "expect" => expr = RefTree(ExprToks(source_code))

\* C3: the first `=` of a chain is the root of the tree: what is before it is
\* its left operand, and the whole rest, later `=` included, its right operand.
C3_Assignment ==
    /\ ParseExprSucceeds
    /\ LET toks == ExprToks(source_code)
           eqs  == {i \in 1..Len(toks) : toks[i] = <<"=">>}
       IN (pc = "expect" /\ eqs # {}) =>
            LET first == CHOOSE i \in eqs : \A j \in eqs : i <= j IN
            expr = BinaryNode(ParseExpr(Flatten(SubSeq(toks, 1, first - 1)), 0, 0).expr,
                              "Equal",
                              ParseExpr(Flatten(SubSeq(toks, first + 1, Len(toks))), 0, 0).expr)

\* a = b = c + d is (a = (b = (c + d)))
C3_Witness ==
    /\ pc = "expect"
    /\ expr = BinaryNode(IdentNode(<<"a">>), "Equal",
                         BinaryNode(IdentNode(<<"b">>), "Equal",
                                    BinaryNode(IdentNode(<<"c">>), "Plus", IdentNode(<<"d">>))))

----------------------------------------------------------------------------
(* Spans: merge_span, src/src/token/tree.rs lines 157..164 *)

\* usize: the values 0..UsizeMax (the model's stand-in for usize::MAX)
Usize == 0..UsizeMax

\* the builds of the program: with overflow checks (debug) an overflowing
\* usize addition panics, without them (release) it wraps
Builds == {"debug", "release"}

\* SourceSpan::new(offset.into(), length)
SourceSpan(offset, length) == [offset |-> offset, length |-> length]

\* every SourceSpan
AllSpans == {SourceSpan(o, l) : o \in Usize, l \in Usize}

\* s.offset() + s.len(), lines 159..160, as the build computes it: -1 for a panic
SpanEndIn(build, s) ==
    IF s.offset + s.length <= UsizeMax THEN s.offset + s.length
    ELSE IF build = "debug" THEN -1
    ELSE (s.offset + s.length) % (UsizeMax + 1)

Min(a, b) == IF a <= b THEN a ELSE b
Max(a, b) == IF a >= b THEN a ELSE b

\* the outcome of a merge_span that panicked
SpanPanic == [kind |-> "Panic"]

\* a faulty merge_span that keeps the length of the longer argument
MergeSpanIn_LongerLength(build, s1, s2) ==
    SourceSpan(Min(s1.offset, s2.offset), Max(s1.length, s2.length))

\* merge_span(s1, s2), lines 157..164, in a build: SpanPanic where an addition
\* or the subtraction panics
MergeSpanIn(build, s1, s2) ==
    IF s1 = SpanPanic \/ s2 = SpanPanic THEN SpanPanic
    ELSE IF SpanEndIn(build, s1) < 0 \/ SpanEndIn(build, s2) < 0 THEN SpanPanic
    ELSE LET start == Min(s1.offset, s2.offset)
             top   == Max(SpanEndIn(build, s1), SpanEndIn(build, s2))
         IN IF top >= start THEN SourceSpan(start, top - start)
            ELSE IF build = "debug" THEN SpanPanic
            ELSE SourceSpan(start, (top - start) % (UsizeMax + 1))

\* merge_span, lines 157..164, on spans whose ends fit in usize, as those of
\* a source text do: no addition overflows and the builds agree
MergeSpan(s1, s2) ==
    SourceSpan(Min(s1.offset, s2.offset),
               Max(s1.offset + s1.length, s2.offset + s2.length) - Min(s1.offset, s2.offset))

\* three spans are drawn and merge_span is applied to them
SpanInit ==
    /\ spans \in [1..3 -> AllSpans]
    /\ source_code = <<>>
    /\ byte_offset = 0
    /\ result = NoCall
    /\ peeked = NoCall
    /\ history = <<>>
    /\ pc = "merge"
    /\ expr = NoCall
    /\ stmts = <<>>
    /\ stmt_idx = 0
    /\ output = <<>>

\* merge_span applied to the spans: to one with itself, to two in both
\* orders, to three in both groupings
Merge(build) ==
    /\ pc = "merge"
    /\ pc' = "done"
    /\ result' = [kind  |-> "Merged",
                  build |-> build,
                  aa    |-> MergeSpanIn(build, spans[1], spans[1]),
                  ab    |-> MergeSpanIn(build, spans[1], spans[2]),
                  ba    |-> MergeSpanIn(build, spans[2], spans[1]),
                  ab_c  |-> MergeSpanIn(build, MergeSpanIn(build, spans[1], spans[2]), spans[3]),
                  a_bc  |-> MergeSpanIn(build, spans[1], MergeSpanIn(build, spans[2], spans[3]))]
    /\ UNCHANGED <<source_code, byte_offset, peeked, history, expr, stmts, stmt_idx, output, spans>>

SpanNext == \E build \in Builds : Merge(build)

SpecSpan == SpanInit /\ [][SpanNext]_vars

\* the end of a span, as a number
SpanEnd(s) == s.offset + s.length
\* the ends of the three spans fit in usize
EndsFit == \A i \in 1..3 : SpanEnd(spans[i]) <= UsizeMax

\* merge_span is idempotent, commutative and associative, and the result
\* runs from the least offset to the greatest end of the arguments
MergeLaws ==
    pc = "done" =>
        /\ result.ab # SpanPanic /\ result.ab_c # SpanPanic
        /\ result.aa = spans[1]
        /\ result.ab = result.ba
        /\ result.ab_c = result.a_bc
        /\ result.ab.offset = Min(spans[1].offset, spans[2].offset)
        /\ SpanEnd(result.ab) = Max(SpanEnd(spans[1]), SpanEnd(spans[2]))
        /\ result.ab_c.offset = Min(spans[1].offset, Min(spans[2].offset, spans[3].offset))
        /\ SpanEnd(result.ab_c) = Max(SpanEnd(spans[1]), Max(SpanEnd(spans[2]), SpanEnd(spans[3])))
        /\ \A N \in Usize :
             (SpanEnd(spans[1]) <= N /\ SpanEnd(spans[2]) <= N) => SpanEnd(result.ab) <= N

----------------------------------------------------------------------------
(* Values: Atom and its operators, src/src/token/tree.rs lines 126..285 *)

\* Atom::new(kind, span), lines 132..134; val is the payload of the kind:
\* the characters of a String or Ident, the f64 of a Number as a fraction
\* [n, d] in lowest terms, the bool of a Bool, <<>> for Nil, Super and This
Atom(kind, val, span) == [node |-> "Atom", kind |-> kind, val |-> val, span |-> span]

\* Result<Atom, RuntimeErrorKind> and Result<Atom, Error>
EOk(atom) == [ok |-> TRUE, atom |-> atom]
EErr(err) == [ok |-> FALSE, err |-> err]

\* RuntimeErrorKind, src/src/error.rs lines 135..138
DivisionByZero == [ty |-> "DivisionByZero"]
InvalidOperand(msg) == [ty |-> "InvalidOperand", msg |-> msg]

\* f64 values as fractions; rounding, infinities and NaN are outside the model
RECURSIVE Gcd(_, _)
Gcd(a, b) == IF b = 0 THEN a ELSE Gcd(b, a % b)
Abs(x) == IF x < 0 THEN -x ELSE x
\* n / d in lowest terms with a positive denominator, d # 0
Rat(n, d) ==
    LET g == Gcd(Abs(n), Abs(d))
        sgn == IF d < 0 THEN -1 ELSE 1
    IN [n |-> sgn * (n \div g), d |-> sgn * (d \div g)]
RatAdd(a, b) == Rat(a.n * b.d + b.n * a.d, a.d * b.d)
RatSub(a, b) == Rat(a.n * b.d - b.n * a.d, a.d * b.d)
RatMul(a, b) == Rat(a.n * b.n, a.d * b.d)
RatDiv(a, b) == Rat(a.n * b.d, a.d * b.n)
RatNeg(a) == [n |-> -a.n, d |-> a.d]
RatLess(a, b) == a.n * b.d < b.n * a.d

\* the byte of a character of the strings of the model
ByteOf(c) == IF c = "a" THEN 97 ELSE IF c = "b" THEN 98 ELSE 99

\* str::partial_cmp: the order of the bytes, a proper prefix being less
RECURSIVE StrCmp(_, _)
StrCmp(s, t) ==
    IF s = <<>> /\ t = <<>> THEN "Equal"
    ELSE IF s = <<>> THEN "Less"
    ELSE IF t = <<>> THEN "Greater"
    ELSE IF ByteOf(Head(s)) < ByteOf(Head(t)) THEN "Less"
    ELSE IF ByteOf(Head(s)) > ByteOf(Head(t)) THEN "Greater"
    ELSE StrCmp(Tail(s), Tail(t))

\* a faulty Add that turns a Number beside a String into its text
AtomAdd_Coerce(a, b) ==
    IF a.kind = "String" /\ b.kind = "String"
    THEN EOk(Atom("String", a.val \o b.val, MergeSpan(a.span, b.span)))
    ELSE IF a.kind = "Number" /\ b.kind = "Number"
    THEN EOk(Atom("Number", RatAdd(a.val, b.val), MergeSpan(a.span, b.span)))
    ELSE IF a.kind = "String" /\ b.kind = "Number"
    THEN EOk(Atom("String", a.val \o <<"1">>, MergeSpan(a.span, b.span)))
    ELSE EErr(InvalidOperand("Operands must be two numbers or two strings."))

\* impl Add for Atom, lines 166..184
AtomAdd(a, b) ==
    IF a.kind = "String" /\ b.kind = "String"
    THEN EOk(Atom("String", a.val \o b.val, MergeSpan(a.span, b.span)))
    ELSE IF a.kind = "Number" /\ b.kind = "Number"
    THEN EOk(Atom("Number", RatAdd(a.val, b.val), MergeSpan(a.span, b.span)))
    ELSE EErr(InvalidOperand("Operands must be two numbers or two strings."))

\* impl Sub for Atom, lines 186..200
AtomSub(a, b) ==
    IF a.kind = "Number" /\ b.kind = "Number"
    THEN EOk(Atom("Number", RatSub(a.val, b.val), MergeSpan(a.span, b.span)))
    ELSE EErr(InvalidOperand("Operands must be numbers"))

\* a faulty Mul whose product keeps the span of its left operand
AtomMul_LeftSpan(a, b) ==
    IF a.kind = "Number" /\ b.kind = "Number"
    THEN EOk(Atom("Number", RatMul(a.val, b.val), a.span))
    ELSE EErr(InvalidOperand("Operands must be numbers"))

\* impl Mul for Atom, lines 202..216
AtomMul(a, b) ==
    IF a.kind = "Number" /\ b.kind = "Number"
    THEN EOk(Atom("Number", RatMul(a.val, b.val), MergeSpan(a.span, b.span)))
    ELSE EErr(InvalidOperand("Operands must be numbers"))

\* a faulty Div that tests the dividend, not the divisor, and yields Nil
\* for a zero divisor
AtomDiv_ZeroDividend(a, b) ==
    IF a.kind = "Number" /\ b.kind = "Number"
    THEN IF a.val.n = 0 THEN EErr(DivisionByZero)
         ELSE IF b.val.n = 0 THEN EOk(Atom("Nil", <<>>, MergeSpan(a.span, b.span)))
         ELSE EOk(Atom("Number", RatDiv(a.val, b.val), MergeSpan(a.span, b.span)))
    ELSE EErr(InvalidOperand("Operands must be numbers"))

\* impl Div for Atom, lines 218..238
AtomDiv(a, b) ==
    IF a.kind = "Number" /\ b.kind = "Number"
    THEN IF b.val.n = 0 THEN EErr(DivisionByZero)
         ELSE EOk(Atom("Number", RatDiv(a.val, b.val), MergeSpan(a.span, b.span)))
    ELSE EErr(InvalidOperand("Operands must be numbers"))

\* impl Neg for Atom, lines 240..251
AtomNeg(a) ==
    IF a.kind = "Number" THEN EOk(Atom("Number", RatNeg(a.val), a.span))
    ELSE EErr(InvalidOperand("Operand must be a number."))

\* a faulty Not that takes Nil for false
AtomNot_Truthy(a) ==
    IF a.kind = "Bool" THEN Atom("Bool", ~a.val, a.span)
    ELSE IF a.kind = "Nil" THEN Atom("Bool", TRUE, a.span)
    ELSE Atom("Nil", <<>>, a.span)

\* impl Not for Atom, lines 253..262
AtomNot(a) ==
    IF a.kind = "Bool" THEN Atom("Bool", ~a.val, a.span)
    ELSE Atom("Nil", <<>>, a.span)

\* impl PartialEq for Atom, lines 264..275
AtomEq(a, b) ==
    IF a.kind = b.kind /\ a.kind \in {"String", "Number", "Bool", "Ident"} THEN a.val = b.val
    ELSE a.kind = "Nil" /\ b.kind = "Nil"

\* PartialEq::ne, the negation of eq
AtomNe(a, b) == ~AtomEq(a, b)

\* a faulty partial_cmp that also orders the Bools, false before true
PartialCmp_Bools(a, b) ==
    IF a.kind = "Number" /\ b.kind = "Number"
    THEN IF RatLess(a.val, b.val) THEN "Less"
         ELSE IF RatLess(b.val, a.val) THEN "Greater" ELSE "Equal"
    ELSE IF a.kind = "String" /\ b.kind = "String" THEN StrCmp(a.val, b.val)
    ELSE IF a.kind = "Bool" /\ b.kind = "Bool"
    THEN IF a.val = b.val THEN "Equal" ELSE IF b.val THEN "Less" ELSE "Greater"
    ELSE "None"

\* impl PartialOrd for Atom, lines 277..285: "None" for no ordering
PartialCmp(a, b) ==
    IF a.kind = "Number" /\ b.kind = "Number"
    THEN IF RatLess(a.val, b.val) THEN "Less"
         ELSE IF RatLess(b.val, a.val) THEN "Greater" ELSE "Equal"
    ELSE IF a.kind = "String" /\ b.kind = "String" THEN StrCmp(a.val, b.val)
    ELSE "None"

\* PartialOrd::lt, le, gt, ge
AtomLt(a, b) == PartialCmp(a, b) = "Less"
AtomLe(a, b) == PartialCmp(a, b) \in {"Less", "Equal"}
AtomGt(a, b) == PartialCmp(a, b) = "Greater"
AtomGe(a, b) == PartialCmp(a, b) \in {"Greater", "Equal"}

----------------------------------------------------------------------------
(* The interpreter: src/src/interpreter.rs, src/src/visitor.rs *)

\* Expr::span, tree.rs lines 51..63
RECURSIVE ExprSpan(_)
\* a faulty Expr::span that takes the span of the left operand for a Binary
ExprSpan_LeftOnly(e) ==
    IF e.node = "Atom" THEN e.span
    ELSE IF e.node = "Binary" THEN ExprSpan(e.left)
    ELSE ExprSpan(e.expr)

ExprSpan(e) ==
    IF e.node = "Atom" THEN e.span
    ELSE IF e.node = "Binary" THEN MergeSpan(ExprSpan(e.left), ExprSpan(e.right))
    ELSE ExprSpan(e.expr)

\* Error::RuntimeError(RuntimeError::new(source, kind, span))
RuntimeError(kind, span) == [fam |-> "RuntimeError", kind |-> kind, span |-> span]

\* map_err of visit_binary and visit_unary: the kind becomes a RuntimeError at span
MapErr(r, span) == IF r.ok THEN r ELSE EErr(RuntimeError(r.err, span))

\* the match on op of visit_binary, lines 58..115, on the two values
BinaryOp(op, l, r, span) ==
    IF op = "Plus" THEN MapErr(AtomAdd(l, r), span)
    ELSE IF op = "Minus" THEN MapErr(AtomSub(l, r), span)
    ELSE IF op = "Star" THEN MapErr(AtomMul(l, r), span)
    ELSE IF op = "Slash" THEN MapErr(AtomDiv(l, r), span)
    ELSE IF op = "EqualEqual" THEN EOk(Atom("Bool", AtomEq(l, r), span))
    ELSE IF op = "BangEqual" THEN EOk(Atom("Bool", AtomNe(l, r), span))
    ELSE IF op = "Less" THEN EOk(Atom("Bool", AtomLt(l, r), span))
    ELSE IF op = "LessEqual" THEN EOk(Atom("Bool", AtomLe(l, r), span))
    ELSE IF op = "Greater" THEN EOk(Atom("Bool", AtomGt(l, r), span))
    ELSE IF op = "GreaterEqual" THEN EOk(Atom("Bool", AtomGe(l, r), span))
    ELSE EOk(Atom("Nil", <<>>, span))

\* a faulty visit_unary that passes the value through under any other operator
UnaryOp_Transparent(op, value, span) ==
    IF op = "Minus" THEN MapErr(AtomNeg(value), span)
    ELSE IF op = "Bang" THEN EOk(AtomNot(value))
    ELSE EOk(value)

\* the match on op of visit_unary, lines 128..138, on the value
UnaryOp(op, value, span) ==
    IF op = "Minus" THEN MapErr(AtomNeg(value), span)
    ELSE IF op = "Bang" THEN EOk(AtomNot(value))
    ELSE EOk(Atom("Nil", <<>>, span))

\* visit_binary after its right operand: `?` on right_value, then the match
VisitBinaryRight(e, l, rv) ==
    IF ~rv.ok THEN rv
    ELSE BinaryOp(e.op, l, rv.atom, MergeSpan(ExprSpan(e.left), ExprSpan(e.right)))

\* visit_unary after its operand: `?` on value, then the match
VisitUnaryValue(e, v) ==
    IF ~v.ok THEN v ELSE UnaryOp(e.op, v.atom, ExprSpan(e.expr))

RECURSIVE Accept(_)
\* a faulty visit_binary that evaluates the right operand first
VisitBinaryLeft_RightFirst(e, lv) ==
    IF ~Accept(e.right).ok THEN Accept(e.right)
    ELSE IF ~lv.ok THEN lv
    ELSE VisitBinaryRight(e, lv.atom, Accept(e.right))

\* visit_binary after its left operand: `?` on left_value, then the right operand
VisitBinaryLeft(e, lv) ==
    IF ~lv.ok THEN lv ELSE VisitBinaryRight(e, lv.atom, Accept(e.right))

\* Expr::accept with the Interpreter as visitor (visitor.rs lines 19..29):
\* visit_atom, visit_binary, visit_unary, visit_group
Accept(e) ==
    IF e.node = "Atom" THEN EOk(e)
    ELSE IF e.node = "Binary" THEN VisitBinaryLeft(e, Accept(e.left))
    ELSE IF e.node = "Unary" THEN VisitUnaryValue(e, Accept(e.expr))
    ELSE Accept(e.expr)

\* the atoms visit_atom is called on while e is evaluated, in order: the
\* right operand of a Binary is visited only when the left one gave a value
RECURSIVE Visits(_)
VisitsBinary(e, lv) ==
    Visits(e.left) \o (IF lv.ok THEN Visits(e.right) ELSE <<>>)
Visits(e) ==
    IF e.node = "Atom" THEN <<e>>
    ELSE IF e.node = "Binary" THEN VisitsBinary(e, Accept(e.left))
    ELSE Visits(e.expr)

\* the expressions evaluated: atoms as the interpreter's tests build them
EvalSpans == {SourceSpan(0, 1), SourceSpan(2, 1)}
NumberVals == {Rat(n, 1) : n \in 0..MaxNum}
EvalNumbers == {Atom("Number", v, SourceSpan(0, 1)) : v \in NumberVals}
EvalAtoms ==
    {Atom(kv[1], kv[2], sp) :
        kv \in ({<<"Number", v>> : v \in NumberVals}
                \cup {<<"String", <<>>>>, <<"String", <<"a">>>>, <<"String", <<"b">>>>,
                      <<"String", <<"a", "b">>>>,
                      <<"Bool", TRUE>>, <<"Bool", FALSE>>, <<"Nil", <<>>>>,
                      <<"Ident", <<"a">>>>, <<"Ident", <<"b">>>>,
                      <<"Super", <<>>>>, <<"This", <<>>>>}),
        sp \in EvalSpans}
\* operands of failing and of succeeding operations, the left ones at
\* span (0, 1), the right ones at span (2, 1)
LeftOperands == {Atom("Number", Rat(1, 1), SourceSpan(0, 1)), Atom("Number", Rat(0, 1), SourceSpan(0, 1)),
                 Atom("String", <<"a">>, SourceSpan(0, 1))}
RightOperands == {Atom("Number", Rat(1, 1), SourceSpan(2, 1)), Atom("Number", Rat(0, 1), SourceSpan(2, 1)),
                  Atom("String", <<"a">>, SourceSpan(2, 1))}
ArithOps == {"Plus", "Minus", "Star", "Slash"}
CompareOps == {"EqualEqual", "BangEqual", "Less", "LessEqual", "Greater", "GreaterEqual"}
BinaryOps == ArithOps \cup CompareOps \cup {"Dot", "Equal"}
UnaryOps == {"Minus", "Bang", "Plus", "Print", "Return"}
\* numbers at three spans, out of order in the trees below
SpanAtoms ==
    {Atom("Number", Rat(1, 1), sp) : sp \in {SourceSpan(0, 1), SourceSpan(2, 1), SourceSpan(4, 2)}}
\* the tree of `print 5;`
PrintFive == UnaryNode("Print", Atom("Number", Rat(5, 1), SourceSpan(6, 1)))
EvalExprs ==
    EvalAtoms
    \cup {GroupNode(a) : a \in EvalAtoms}
    \cup {UnaryNode(op, a) : op \in UnaryOps, a \in EvalAtoms}
    \cup {BinaryNode(a, op, b) : a \in EvalAtoms, op \in BinaryOps, b \in EvalAtoms}
    \cup {UnaryNode(op, UnaryNode(op2, a)) : op \in UnaryOps, op2 \in UnaryOps, a \in EvalAtoms}
    \cup {BinaryNode(BinaryNode(a, op1, b), op2, c) :
            a \in EvalNumbers, op1 \in ArithOps, b \in EvalNumbers,
            op2 \in BinaryOps, c \in EvalNumbers}
    \cup {BinaryNode(c, op2, GroupNode(BinaryNode(a, op1, b))) :
            a \in EvalNumbers, op1 \in ArithOps, b \in EvalNumbers,
            op2 \in BinaryOps, c \in EvalNumbers}
    \cup {BinaryNode(BinaryNode(a, op1, b), op2, BinaryNode(c, op3, d)) :
            a \in LeftOperands, op1 \in {"Slash", "Minus"}, b \in LeftOperands,
            op2 \in {"Plus", "EqualEqual", "Dot", "Equal"},
            c \in RightOperands, op3 \in {"Slash", "Minus"}, d \in RightOperands}
    \cup {UnaryNode(op, BinaryNode(a, op1, b)) :
            op \in UnaryOps, a \in LeftOperands, op1 \in {"Slash", "Minus"}, b \in RightOperands}
    \cup {BinaryNode(BinaryNode(a, op1, b), op2, c) :
            a \in SpanAtoms, op1 \in {"Star", "Plus"}, b \in SpanAtoms,
            op2 \in {"Minus", "Less"}, c \in SpanAtoms}
    \cup {UnaryNode(op, GroupNode(BinaryNode(a, "Star", b))) :
            op \in {"Minus", "Bang", "Print"}, a \in SpanAtoms, b \in SpanAtoms}
    \cup {PrintFive}

\* an expression tree is drawn and handed to accept
EvalInit ==
    /\ expr \in EvalExprs
    /\ source_code = <<>>
    /\ byte_offset = 0
    /\ result = NoCall
    /\ peeked = NoCall
    /\ history = <<>>
    /\ pc = "eval"
    /\ stmts = <<>>
    /\ stmt_idx = 0
    /\ output = <<>>
    /\ spans = <<>>

\* expr.accept(interpreter)
Evaluate ==
    /\ pc = "eval"
    /\ pc' = "done"
    /\ result' = Accept(expr)
    /\ history' = Visits(expr)
    /\ UNCHANGED <<source_code, byte_offset, peeked, expr, stmts, stmt_idx, output, spans>>

SpecEval == EvalInit /\ [][Evaluate]_vars

----------------------------------------------------------------------------
(* Claims about evaluation *)

\* the values of the operands of the expression evaluated
LeftValue == Accept(expr.left)
RightValue == Accept(expr.right)
OperandValue == Accept(expr.expr)
\* a binary expression has been evaluated and both operands gave a value
BinaryDone ==
    pc = "done" /\ expr.node = "Binary" /\ LeftValue.ok /\ RightValue.ok
\* a unary expression has been evaluated and its operand gave a value
UnaryDone == pc = "done" /\ expr.node = "Unary" /\ OperandValue.ok
BothNumbers == LeftValue.atom.kind = "Number" /\ RightValue.atom.kind = "Number"
BothStrings == LeftValue.atom.kind = "String" /\ RightValue.atom.kind = "String"

IsRuntimeError(r, ty) == ~r.ok /\ r.err.fam = "RuntimeError" /\ r.err.kind.ty = ty
IsValue(r, kind) == r.ok /\ r.atom.kind = kind
\* the fraction q is n / d
IsFraction(q, n, d) == q.d > 0 /\ q.n * d = n * q.d

\* C11: a Number divided by a zero Number is the runtime error
\* DivisionByZero, whatever the dividend; by a non-zero Number it is the
\* Number quotient.
C11_DivisionByZero ==
    (BinaryDone /\ expr.op = "Slash" /\ BothNumbers) =>
        IF RightValue.atom.val.n = 0
        THEN IsRuntimeError(result, "DivisionByZero")
        ELSE /\ IsValue(result, "Number")
             /\ IsFraction(result.atom.val,
                           LeftValue.atom.val.n * RightValue.atom.val.d,
                           LeftValue.atom.val.d * RightValue.atom.val.n)

\* 0 / 0 has been evaluated to DivisionByZero
C11_Witness ==
    /\ BinaryDone /\ expr.op = "Slash" /\ BothNumbers
    /\ LeftValue.atom.val.n = 0 /\ RightValue.atom.val.n = 0
    /\ IsRuntimeError(result, "DivisionByZero")

\* C12: + gives the sum of two Numbers and the concatenation of two
\* Strings, - * / take two Numbers and unary - one Number; every other
\* combination of operand kinds is the runtime error InvalidOperand, for /
\* also when the divisor is 0.
C12_KindChecked ==
    /\ (BinaryDone /\ expr.op = "Plus") =>
          IF BothNumbers
          THEN /\ IsValue(result, "Number")
               /\ IsFraction(result.atom.val,
                             LeftValue.atom.val.n * RightValue.atom.val.d
                               + RightValue.atom.val.n * LeftValue.atom.val.d,
                             LeftValue.atom.val.d * RightValue.atom.val.d)
          ELSE IF BothStrings
          THEN /\ IsValue(result, "String")
               /\ result.atom.val = LeftValue.atom.val \o RightValue.atom.val
          ELSE IsRuntimeError(result, "InvalidOperand")
    /\ (BinaryDone /\ expr.op = "Minus") =>
          IF BothNumbers
          THEN /\ IsValue(result, "Number")
               /\ IsFraction(result.atom.val,
                             LeftValue.atom.val.n * RightValue.atom.val.d
                               - RightValue.atom.val.n * LeftValue.atom.val.d,
                             LeftValue.atom.val.d * RightValue.atom.val.d)
          ELSE IsRuntimeError(result, "InvalidOperand")
    /\ (BinaryDone /\ expr.op = "Star") =>
          IF BothNumbers
          THEN /\ IsValue(result, "Number")
               /\ IsFraction(result.atom.val,
                             LeftValue.atom.val.n * RightValue.atom.val.n,
                             LeftValue.atom.val.d * RightValue.atom.val.d)
          ELSE IsRuntimeError(result, "InvalidOperand")
    /\ (BinaryDone /\ expr.op = "Slash") =>
          IF BothNumbers
          THEN ~IsRuntimeError(result, "InvalidOperand")
          ELSE IsRuntimeError(result, "InvalidOperand")
    /\ (UnaryDone /\ expr.op = "Minus") =>
          IF OperandValue.atom.kind = "Number"
          THEN /\ IsValue(result, "Number")
               /\ IsFraction(result.atom.val, -OperandValue.atom.val.n, OperandValue.atom.val.d)
          ELSE IsRuntimeError(result, "InvalidOperand")

\* a String divided by the Number 0 has been evaluated to InvalidOperand
C12_Witness ==
    /\ BinaryDone /\ expr.op = "Slash"
    /\ LeftValue.atom.kind = "String"
    /\ RightValue.atom.kind = "Number" /\ RightValue.atom.val.n = 0
    /\ IsRuntimeError(result, "InvalidOperand")

\* the Bool that the comparison op gives on the operands of the expression
Compared(op) == Accept(BinaryNode(expr.left, op, expr.right))
OrderOps == {"Less", "LessEqual", "Greater", "GreaterEqual"}

\* C13: a comparison of two values is never an error and always a Bool; on
\* two kinds == is false, != is true and the orderings are false; the
\* orderings are false on every pair that is not two Numbers or two
\* Strings; != is the negation of ==.
C13_Comparisons ==
    (BinaryDone /\ expr.op \in CompareOps) =>
        /\ IsValue(result, "Bool")
        /\ (LeftValue.atom.kind # RightValue.atom.kind) =>
              result.atom.val = (expr.op = "BangEqual")
        /\ (expr.op \in OrderOps /\ ~BothNumbers /\ ~BothStrings) =>
              result.atom.val = FALSE
        /\ (expr.op = "BangEqual") =>
              /\ IsValue(Compared("EqualEqual"), "Bool")
              /\ result.atom.val = ~Compared("EqualEqual").atom.val

\* true <= true has been evaluated to false
C13_Witness ==
    /\ BinaryDone /\ expr.op = "LessEqual"
    /\ LeftValue.atom.kind = "Bool" /\ LeftValue.atom.val
    /\ RightValue.atom.kind = "Bool" /\ RightValue.atom.val
    /\ IsValue(result, "Bool") /\ ~result.atom.val

\* C14: ! negates a Bool and gives Nil, not an error, on a value of any
\* other kind; so !!b is b for a Bool b and !!x is Nil for any other atom x.
C14_Not ==
    /\ (UnaryDone /\ expr.op = "Bang") =>
          IF OperandValue.atom.kind = "Bool"
          THEN IsValue(result, "Bool") /\ result.atom.val = ~OperandValue.atom.val
          ELSE IsValue(result, "Nil")
    /\ (UnaryDone /\ expr.op = "Bang" /\ expr.expr.node = "Unary"
          /\ expr.expr.op = "Bang" /\ expr.expr.expr.node = "Atom") =>
          IF expr.expr.expr.kind = "Bool"
          THEN result = EOk(expr.expr.expr)
          ELSE IsValue(result, "Nil")

\* !!x has been evaluated to Nil for a Number x
C14_Witness ==
    /\ UnaryDone /\ expr.op = "Bang" /\ expr.expr.node = "Unary"
    /\ expr.expr.op = "Bang" /\ expr.expr.expr.node = "Atom"
    /\ expr.expr.expr.kind = "Number"
    /\ IsValue(result, "Nil")

----------------------------------------------------------------------------
(* interpret() and the Evaluate command: src/src/interpreter.rs lines
   24..42, src/src/main.rs lines 53..63 *)

\* Stmt::Expr(expr)
StmtExpr(e) == [stmt |-> "Expr", expr |-> e]

\* Stmt::accept with the Interpreter, visitor.rs lines 31..38: visit_expr_stmt
StmtAccept(st) == Accept(st.expr)

\* what interpret() writes for the result of a Stmt::Expr, lines 29..36:
\* the error to stderr, the atom to stdout
Written(r) ==
    IF r.ok THEN [stream |-> "stdout", atom |-> r.atom]
    ELSE [stream |-> "stderr", err |-> r.err]

\* the statements interpreted: two that fail and four that give a value
Num(n) == Atom("Number", Rat(n, 1), SourceSpan(0, 1))
InterpExprs ==
    {Num(1), Num(2), Atom("String", <<"a">>, SourceSpan(0, 1)),
     BinaryNode(Num(1), "Plus", Num(2)),
     BinaryNode(Num(1), "Slash", Num(0)),
     BinaryNode(Atom("String", <<"a">>, SourceSpan(0, 1)), "Minus", Num(1))}
InterpTrees == UNION {[1..n -> {StmtExpr(e) : e \in InterpExprs}] : n \in 0..MaxStmts}

\* Interpreter::new and the tree that parse() hands to interpret(), lines 19..25
InterpInit ==
    /\ stmts \in InterpTrees
    /\ stmt_idx = 0
    /\ output = <<>>
    /\ pc = "interpret"
    /\ result = NoCall
    /\ source_code = <<>>
    /\ byte_offset = 0
    /\ peeked = NoCall
    /\ history = <<>>
    /\ expr = NoCall
    /\ spans = <<>>

\* one turn of the loop of interpret(), lines 27..39
InterpretStmt ==
    /\ pc = "interpret"
    /\ stmt_idx < Len(stmts)
    /\ output' = Append(output, Written(StmtAccept(stmts[stmt_idx + 1])))
    /\ stmt_idx' = stmt_idx + 1
    /\ UNCHANGED <<source_code, byte_offset, result, peeked, history, pc, expr, stmts, spans>>

\* the end of the loop: interpret() returns Ok(()), line 41
InterpretReturn ==
    /\ pc = "interpret"
    /\ stmt_idx = Len(stmts)
    /\ pc' = "returned"
    /\ result' = [kind |-> "Ok"]
    /\ UNCHANGED <<source_code, byte_offset, peeked, history, expr, stmts, stmt_idx, output, spans>>

\* main on what interpret() returned, main.rs lines 56..62 and 66: exit
\* code 70 and the error on stderr for Err, exit code 0 for Ok
MainEvaluate ==
    /\ pc = "returned"
    /\ pc' = "exited"
    /\ result' = [kind |-> "Exit", code |-> IF result.kind = "Ok" THEN 0 ELSE 70,
                  interpret |-> result]
    /\ output' = IF result.kind = "Ok" THEN output
                 ELSE Append(output, [stream |-> "stderr", err |-> result.err])
    /\ UNCHANGED <<source_code, byte_offset, peeked, history, expr, stmts, stmt_idx, spans>>

InterpNext == InterpretStmt \/ InterpretReturn \/ MainEvaluate

SpecInterp == InterpInit /\ [][InterpNext]_vars

\* the statements among the first n whose evaluation is a runtime error
FailedUpTo(n) == {i \in 1..n : ~StmtAccept(stmts[i]).ok}
\* the first of them
FirstFailed == CHOOSE i \in FailedUpTo(stmt_idx) : \A j \in FailedUpTo(stmt_idx) : i <= j

\* C15: when the evaluation of a statement is a runtime error, no later
\* statement is evaluated or written, interpret() returns Err with that
\* error and the exit code is 70.
C15_AbortOnError ==
    FailedUpTo(stmt_idx) # {} =>
        /\ stmt_idx = FirstFailed
        /\ Len(output) <= FirstFailed
        /\ pc = "returned" =>
              /\ result.kind = "Err"
              /\ result.err = StmtAccept(stmts[FirstFailed]).err
        /\ pc = "exited" => result.code = 70

----------------------------------------------------------------------------
(* Claims about statements and groups *)

\* the source texts of the statement specification: atoms, `+`, the
\* parentheses and `;`
StmtChars == {"a", "1", ";", "+", "(", ")"}

SpecStmt == ParseInit(Texts(StmtChars, MaxSrcLen)) /\ [][ParseNext]_vars

\* the texts before each `;` of src, in order; cur is the text since the last `;`
RECURSIVE SplitSemi(_, _)
SplitSemi(src, cur) ==
    IF src = <<>> THEN <<>>
    ELSE IF Head(src) = ";" THEN <<cur>> \o SplitSemi(Tail(src), <<>>)
    ELSE SplitSemi(Tail(src), Append(cur, Head(src)))
Terminated(src) == SplitSemi(src, <<>>)

\* how many characters c the first n characters of src hold
CountIn(src, c, n) == Cardinality({i \in 1..n : src[i] = c})

\* r, what parse_expr(0) returns on the text seg alone, is an expression
\* that takes all of seg
WholeOn(seg, r) == r.ok /\ LexerNext(seg, r.off).res.kind = "None"
Whole(seg) == WholeOn(seg, ParseExpr(seg, 0, 0))

\* C16: parse() makes one Stmt::Expr of each expression that ends in `;`,
\* in the order of the source, and takes the `;`; an expression that
\* something else or the end of the input follows makes parse() fail.
C16_Statements ==
    /\ Len(stmts) <= Len(Terminated(source_code))
    /\ \A i \in 1..Len(stmts) :
          /\ Whole(Terminated(source_code)[i])
          /\ stmts[i] = [stmt |-> "Expr", expr |-> ParseExpr(Terminated(source_code)[i], 0, 0).expr]
    /\ pc = "parse" =>
          /\ Len(stmts) = CountIn(source_code, ";", byte_offset)
          /\ byte_offset > 0 => source_code[byte_offset] = ";"
    /\ (pc = "done" /\ result.kind = "ParseOk") =>
          /\ result.tree = stmts
          /\ Len(stmts) = Len(Terminated(source_code))
          /\ source_code # <<>> => source_code[Len(source_code)] = ";"
    /\ (pc = "done" /\ result.kind = "ParseErr") =>
          \/ Len(stmts) = Len(Terminated(source_code))
          \/ ~Whole(Terminated(source_code)[Len(stmts) + 1])

\* a;1; has been parsed to the two statements a and 1
C16_Witness ==
    /\ pc = "done" /\ result.kind = "ParseOk"
    /\ source_code = <<"a", ";", "1", ";">>
    /\ Len(result.tree) = 2
    /\ result.tree[1].expr = IdentNode(<<"a">>)

\* how many Group nodes an expression holds
RECURSIVE GroupCount(_)
GroupCount(e) ==
    IF e.node = "Atom" THEN 0
    ELSE IF e.node = "Binary" THEN GroupCount(e.left) + GroupCount(e.right)
    ELSE IF e.node = "Unary" THEN GroupCount(e.expr)
    ELSE 1 + GroupCount(e.expr)

RECURSIVE GroupsOfStmts(_)
GroupsOfStmts(ss) ==
    IF ss = <<>> THEN 0 ELSE GroupCount(Head(ss).expr) + GroupsOfStmts(Tail(ss))

\* the token about to be read is `)`, `;` or the end of the input
AtTerminator(p) ==
    \/ p.kind = "None"
    \/ p.kind = "Ok" /\ p.ty.cls = "Operator" /\ p.ty.name \in {"RightParen", "Selmicolon"}

\* the error says that a `)` was expected
NamesRightParen(err) ==
    /\ \/ err.fam = "UnexpectedEndOfInput"
       \/ err.fam = "LexingError" /\ err.kind = "UnexpectedToken"
    /\ err.expected = "RightParen"

\* the expressions put after a `(`
InnerTexts == {<<"a">>, <<"1">>, <<"+", "a">>, <<"1", "1">>, <<"a", "+", "1">>}
\* the source is `(`, the expression X and then what Follows(source, n)
\* allows at character n
OpenGroup(X, Follows(_, _)) ==
    /\ Len(source_code) >= 1 + Len(X)
    /\ SubSeq(source_code, 1, 1 + Len(X)) = <<"(">> \o X
    /\ Follows(source_code, 2 + Len(X))
\* `;` or the end of the input
FollowsSemiOrEnd(src, n) == n > Len(src) \/ src[n] = ";"
\* a token that is not `)` and does not go on with the expression: `;`,
\* the end of the input, `(`, or an identifier after a number
FollowsOther(src, n) ==
    \/ FollowsSemiOrEnd(src, n)
    \/ src[n] = "("
    \/ src[n] = "a" /\ src[n - 1] = "1"
FollowsRightParen(src, n) ==
    n <= Len(src) /\ src[n] = ")" /\ FollowsSemiOrEnd(src, n + 1)

\* a `)` or `;` after an operand ends parse_expr, which leaves it unread,
\* and a Group is made of each `(` with the `)` that closes it
EndsAtTerminator ==
    pc = "expect" =>
        /\ CountIn(source_code, ";", byte_offset) = Len(stmts)
        /\ CountIn(source_code, ")", byte_offset) = CountIn(source_code, "(", byte_offset)
        /\ GroupCount(expr) + GroupsOfStmts(stmts) = CountIn(source_code, "(", byte_offset)
        /\ AtTerminator(LexerPeek(source_code, byte_offset).res)
\* `(` X `)` at the head of the source is parsed by parse_expr
ClosedGroupParses ==
    \A X \in InnerTexts :
        (OpenGroup(X, FollowsRightParen) /\ pc = "done" /\ result.kind = "ParseErr"
            /\ stmts = <<>>)
            => result.stage = "expect"
\* after `(` X and something that Follows, parse_expr fails and the error
\* says that a `)` was expected
UnclosedGroupFails(Follows(_, _)) ==
    \A X \in InnerTexts :
        OpenGroup(X, Follows) =>
            /\ pc # "expect"
            /\ pc = "done" =>
                  /\ result.kind = "ParseErr"
                  /\ NamesRightParen(result.err)

----------------------------------------------------------------------------
(* Claims about the cursor: line() and comments *)

\* Lexer::line(&self), lines 20..22, on the lexer of the state
Line == LineAt(source_code, byte_offset)

\* C19: in every state of the lexer line() is 1 plus the number of newline
\* characters before the cursor: 1 on a new lexer, k + 1 right after the
\* k-th newline.
C19_LineOfCursor ==
    (pc = "lexing" /\ IsBoundary(source_code, byte_offset)) =>
        Line = 1 + NewlinesIn(ByteSlice(source_code, 0, byte_offset))

\* the source texts of the comment specification: a line comment of up to
\* MaxCommentLen characters, some of them of two bytes, its newline, and up
\* to MaxCommentLen characters after it
CommentBodies == Texts({"a", "U+00E9"}, MaxCommentLen)
CommentTails == Texts({"a", "1", "+"}, MaxCommentLen)
CommentTexts ==
    {<<"/", "/">> \o body \o <<"\n">> \o tail : body \in CommentBodies, tail \in CommentTails}

SpecUtf8 == LexInit(CommentTexts) /\ [][LexNext]_vars

\* the text with an ASCII letter for each character of more than one byte
Asciified(src) == [i \in 1..Len(src) |-> IF src[i] \in MultiByte THEN "a" ELSE src[i]]

\* what the first n calls of next() return on a lexer (src, off)
RECURSIVE Results(_, _, _)
Results(src, off, n) ==
    IF n = 0 THEN <<>>
    ELSE <<LexerNext(src, off).res>> \o Results(src, LexerNext(src, off).off, n - 1)

\* two results of next() are the same end, or the same token by kind and lexeme
SameToken(r1, r2) ==
    /\ r1.kind = r2.kind
    /\ r1.kind = "Ok" => (r1.ty = r2.ty /\ r1.lexeme = r2.lexeme)

\* the byte after the newline that ends the comment at the head of src
AfterComment(src) == ByteLen(SubSeq(src, 1, PositionFrom(src, 0, "\n") + 1))

\* C20: a line comment with characters of more than one byte is skipped
\* exactly: the tokens after it start at or behind the byte after its
\* newline and are those of the same text with an ASCII comment.
C20_MultiByteComment ==
    \A i \in 1..Len(history) :
        /\ SameToken(history[i], Results(Asciified(source_code), 0, Len(history))[i])
        /\ history[i].kind = "Ok" => history[i].at >= AfterComment(source_code)

----------------------------------------------------------------------------
(* Claims about prefix and postfix operators *)

\* the prefixes of the prefix specification: the three prefix operators
\* and the two prefix keywords
PrefixPre == {<<"-">>, <<"!">>, <<"+">>,
              <<"p", "r", "i", "n", "t", " ">>, <<"r", "e", "t", "u", "r", "n", " ">>}
PrefixOps == {<<"*">>, <<"+">>, <<"=", "=">>, <<"<">>, <<"=">>}

SpecPrefix == ParseInit(Chains(PrefixPre, PrefixOps, MaxOps)) /\ [][ParseNext]_vars

\* the tree the specification gives the tokens of a statement that may
\* begin with a prefix: print and return take all that follows, a prefix
\* operator the operand next to it
PrefixRef(toks) ==
    IF toks[1] = <<"p", "r", "i", "n", "t">> THEN UnaryNode("Print", RefTree(Tail(toks)))
    ELSE IF toks[1] = <<"r", "e", "t", "u", "r", "n">> THEN UnaryNode("Return", RefTree(Tail(toks)))
    ELSE RefTree(toks)

\* C21: prefix ! + - take the operand next to them, tighter than every
\* binary arithmetic and comparison operator; prefix print and return
\* take the whole expression that follows, assignment included.
C21_Prefix ==
    /\ ParseExprSucceeds
    /\ pc = "expect" => expr = PrefixRef(ExprToks(source_code))

\* print a = b + c is print (a = (b + c))
C21_Witness ==
    /\ pc = "expect"
    /\ expr = UnaryNode("Print",
                        BinaryNode(IdentNode(<<"a">>), "Equal",
                                   BinaryNode(IdentNode(<<"b">>), "Plus", IdentNode(<<"c">>))))

\* the source texts of the postfix specification: a chain of one-letter
\* identifiers, each with or without a `!` behind it, separated by binary
\* operators, after an optional prefix `-`; then nothing, `;`, or another
\* identifier
PostOps == {<<"+">>, <<"*">>, <<"<">>, <<".">>}
BangToks(ops, bangs) ==
    [i \in 1..(2 * Len(ops) + 1) |->
        IF i % 2 = 1
        THEN <<Letters[(i + 1) \div 2]>> \o (IF bangs[(i + 1) \div 2] = 1 THEN <<"!">> ELSE <<>>)
        ELSE ops[i \div 2]]
BangChains(n) ==
    UNION {{Flatten(pre \o BangToks(ops, bangs) \o term) :
                pre \in {<<>>, << <<"-">> >>},
                ops \in [1..m -> PostOps],
                bangs \in [1..(m + 1) -> {0, 1}],
                term \in {<<>>, << <<";">> >>, << <<" ", "z">> >>}} : m \in 0..n}

SpecPostfix == ParseInit(BangChains(MaxAllOps)) /\ [][ParseNext]_vars

\* the tree the specification gives such a chain: the root is the loosest
\* of + * <, the rightmost of its level; a leading `-` takes what is left
\* then; a `!` at the end wraps all before it; a `.` joins its two sides
RECURSIVE PostfixRef(_)
PostfixRef(toks) ==
    LET bin == {i \in 1..Len(toks) : toks[i] \in {<<"+">>, <<"*">>, <<"<">>}}
        dot == {i \in 1..Len(toks) : toks[i] = <<".">>}
    IN
    IF bin # {}
    THEN LET lvl  == CHOOSE l \in {GroupLevel(toks[i]) : i \in bin} :
                        \A i \in bin : l <= GroupLevel(toks[i])
             cand == {i \in bin : GroupLevel(toks[i]) = lvl}
             root == CHOOSE i \in cand : \A j \in cand : i >= j
         IN BinaryNode(PostfixRef(SubSeq(toks, 1, root - 1)),
                       OperatorTryFrom(toks[root]).name,
                       PostfixRef(SubSeq(toks, root + 1, Len(toks))))
    ELSE IF toks[1] = <<"-">> THEN UnaryNode("Minus", PostfixRef(Tail(toks)))
    ELSE IF toks[Len(toks)] = <<"!">>
    THEN UnaryNode("Bang", PostfixRef(SubSeq(toks, 1, Len(toks) - 1)))
    ELSE IF dot # {}
    THEN LET d == CHOOSE i \in dot : \A j \in dot : i >= j
         IN BinaryNode(PostfixRef(SubSeq(toks, 1, d - 1)), "Dot",
                       PostfixRef(SubSeq(toks, d + 1, Len(toks))))
    ELSE IdentNode(toks[1])

\* another operand follows the last one of the chain
OperandFollows == \E i \in 1..Len(source_code) : source_code[i] = "z"

\* C22: a `!` behind a complete operand is a postfix operator that wraps
\* the left-hand side gathered so far wherever 11 >= min_bp, and never an
\* infix operator: an operand behind it is a parse error.
C22_Postfix ==
    CountIn(source_code, ".", Len(source_code)) <= 1 =>
        IF OperandFollows
        THEN /\ pc # "expect"
             /\ pc = "done" => (result.kind = "ParseErr" /\ result.stage = "parse_expr")
        ELSE /\ ParseExprSucceeds
             /\ pc = "expect" => expr = PostfixRef(ExprToks(source_code))

\* -a.b! is -((a . b)!)
C22_Witness ==
    /\ pc = "expect"
    /\ source_code = <<"-", "a", ".", "b", "!">>
    /\ expr = UnaryNode("Minus",
                        UnaryNode("Bang", BinaryNode(IdentNode(<<"a">>), "Dot", IdentNode(<<"b">>))))

----------------------------------------------------------------------------
(* Claims about the errors of parse_expr *)

\* the source texts of the primary specification: a keyword or an operator
\* and up to MaxTailLen characters behind it
TailChars == {"a", ";", " "}
PrimaryTexts ==
    {lead \o tail : lead \in KeywordLexemes \cup OperatorLexemes,
                    tail \in Texts(TailChars, MaxTailLen)}

SpecPrimary == ParseInit(PrimaryTexts) /\ [][ParseNext]_vars

\* the first token of the source
FirstToken == LexerNext(source_code, 0).res
\* parse() has failed on the first statement, in parse_expr
FirstExprFailed ==
    /\ pc = "done" /\ result.kind = "ParseErr" /\ result.stage = "parse_expr"
    /\ stmts = <<>>
\* the keywords and operators that begin an expression
PrimaryKeywords == {"True", "False", "Nil", "This", "Super", "Print", "Return"}
PrimaryOperators == {"LeftParen", "Bang", "Minus", "Plus"}
\* the first token is a keyword, or an operator, that begins no expression
BadKeywordFirst ==
    FirstToken.kind = "Ok" /\ FirstToken.ty.cls = "Keyword"
        /\ FirstToken.ty.name \notin PrimaryKeywords
BadOperatorFirst ==
    FirstToken.kind = "Ok" /\ FirstToken.ty.cls = "Operator"
        /\ FirstToken.ty.name \notin PrimaryOperators
\* the error is a ParseError of that kind at the first token
FailsAtFirstToken(kind) ==
    /\ pc # "expect"
    /\ pc = "done" =>
          /\ FirstExprFailed
          /\ result.err.fam = "ParseError"
          /\ result.err.kind = kind
          /\ result.err.span = [offset |-> FirstToken.at, length |-> ByteLen(FirstToken.lexeme)]

\* C23: a first token that is a keyword other than true, false, nil, this,
\* super, print, return fails with UnexpectedKeyword for that keyword; one
\* that is an operator other than ( ! - + fails with UnsupportedOperator;
\* the span of the error is that of the token.
C23_PrimaryErrors ==
    /\ BadKeywordFirst =>
          /\ FailsAtFirstToken("UnexpectedKeyword")
          /\ pc = "done" => result.err.what = FirstToken.ty.name
    /\ BadOperatorFirst => FailsAtFirstToken("UnsupportedOperator")

\* the source texts of the end-of-input specification: an expression that
\* lacks its last operand, alone or behind a statement, with blanks behind
\* it; and two complete statements
EofLeads == {<<"1", " ", "+">>, <<"(">>, <<"-">>, <<"p", "r", "i", "n", "t">>,
             <<"r", "e", "t", "u", "r", "n">>, <<"!">>, <<"a", "=">>, <<"a", ".">>,
             <<"(", "(">>, <<"1", "*", "-">>, <<"a", "<", "(">>}
EofTexts ==
    {pre \o lead \o tail : pre \in {<<>>, <<"a", ";">>},
                           lead \in EofLeads,
                           tail \in Texts({" ", "\n"}, MaxTailLen)}
CompleteTexts == {<<"1", ";">>, <<"(", "a", ")", ";">>}

SpecEof == ParseInit(EofTexts \cup CompleteTexts) /\ [][ParseNext]_vars

\* C24: where an expression is expected and no token is left, parsing
\* fails with InvalidExpression with an empty lexeme and a span of length
\* 0 at the cursor of the lexer, which is at most the length of the source.
C24_EndOfInput ==
    source_code \in EofTexts =>
        /\ pc = "expect" => stmts = <<>> /\ expr = IdentNode(<<"a">>)
        /\ pc = "done" =>
              /\ result.kind = "ParseErr" /\ result.stage = "parse_expr"
              /\ result.err.fam = "ParseError"
              /\ result.err.kind = "InvalidExpression"
              /\ result.err.what = <<>>
              /\ result.err.span = [offset |-> byte_offset, length |-> 0]
              /\ byte_offset <= ByteLen(source_code)

\* 1 + has failed with InvalidExpression at offset 3
C24_Witness ==
    /\ source_code = <<"1", " ", "+">>
    /\ pc = "done" /\ result.kind = "ParseErr"
    /\ result.err.kind = "InvalidExpression"
    /\ result.err.span = [offset |-> 3, length |-> 0]

----------------------------------------------------------------------------
(* Claims about the order and the spans of evaluation *)

\* the leaf atoms of an expression, from left to right
RECURSIVE Leaves(_)
Leaves(e) ==
    IF e.node = "Atom" THEN <<e>>
    ELSE IF e.node = "Binary" THEN Leaves(e.left) \o Leaves(e.right)
    ELSE Leaves(e.expr)

\* s is the beginning of t
IsPrefix(s, t) == Len(s) <= Len(t) /\ s = SubSeq(t, 1, Len(s))

\* C25: a Binary node evaluates its left operand completely before the
\* right one; when the left one fails the right one is not evaluated and
\* the error of the left one is the result, also when both would fail.
C25_LeftThenRight ==
    (pc = "done" /\ expr.node = "Binary") =>
        IF LeftValue.ok
        THEN /\ IsPrefix(Leaves(expr.left), history)
             /\ IsPrefix(SubSeq(history, Len(Leaves(expr.left)) + 1, Len(history)),
                         Leaves(expr.right))
             /\ Len(history) > Len(Leaves(expr.left))
             /\ ~RightValue.ok => result = RightValue
        ELSE /\ result = LeftValue
             /\ IsPrefix(history, Leaves(expr.left))

\* (1 / 0) + ("a" - 1) has given DivisionByZero, the error of the left operand
C25_Witness ==
    /\ pc = "done" /\ expr.node = "Binary" /\ expr.op = "Plus"
    /\ expr.left.node = "Binary" /\ expr.left.op = "Slash"
    /\ expr.right.node = "Binary" /\ expr.right.op = "Minus"
    /\ ~LeftValue.ok /\ ~RightValue.ok
    /\ IsRuntimeError(LeftValue, "DivisionByZero")
    /\ IsRuntimeError(RightValue, "InvalidOperand")
    /\ result = LeftValue

----------------------------------------------------------------------------
(* From source to evaluation: the parser's tree with the spans of its
   tokens, handed to interpret() (interpreter.rs line 25) *)

RECURSIVE Pow10(_)
Pow10(k) == IF k = 0 THEN 1 ELSE 10 * Pow10(k - 1)

\* the f64 of a Number literal as a fraction
NumberValue(num) == Rat(num.int * Pow10(Len(num.frac)) + DigitsVal(num.frac), Pow10(Len(num.frac)))

\* the Atom of a leaf of the parser's tree, with the span of its token
ToAtom(leaf, span) ==
    IF leaf.kind = "Number" THEN Atom("Number", NumberValue(leaf.num), span)
    ELSE IF leaf.kind = "String" THEN Atom("String", leaf.text, span)
    ELSE IF leaf.kind = "Ident" THEN Atom("Ident", leaf.lexeme, span)
    ELSE IF leaf.kind = "Bool" THEN Atom("Bool", leaf.b, span)
    ELSE Atom(leaf.kind, <<>>, span)

\* the tokens of src from byte off on that are atoms: the literals and the
\* keywords true, false, nil, this, super
IsAtomToken(tok) ==
    \/ tok.ty.cls = "Literal"
    \/ tok.ty.cls = "Keyword" /\ tok.ty.name \in {"True", "False", "Nil", "This", "Super"}
RECURSIVE AtomTokensFrom(_, _)
AtomTokensOn(src, r) ==
    IF r.res.kind # "Ok" THEN <<>>
    ELSE (IF IsAtomToken(r.res) THEN <<r.res>> ELSE <<>>) \o AtomTokensFrom(src, r.off)
AtomTokensFrom(src, off) == AtomTokensOn(src, LexerNext(src, off))

RECURSIVE LeafCount(_)
LeafCount(e) ==
    IF e.node = "Atom" THEN 1
    ELSE IF e.node = "Binary" THEN LeafCount(e.left) + LeafCount(e.right)
    ELSE LeafCount(e.expr)

\* the tree e with the span of its token on every leaf, the leaves of e
\* being the tokens toks[k + 1], toks[k + 2], ...
RECURSIVE Spanned(_, _, _)
Spanned(e, toks, k) ==
    IF e.node = "Atom" THEN ToAtom(e, TokenSpan(toks[k + 1]))
    ELSE IF e.node = "Binary"
    THEN BinaryNode(Spanned(e.left, toks, k), e.op,
                    Spanned(e.right, toks, k + LeafCount(e.left)))
    ELSE IF e.node = "Unary" THEN UnaryNode(e.op, Spanned(e.expr, toks, k))
    ELSE GroupNode(Spanned(e.expr, toks, k))

RECURSIVE SpannedStmts(_, _, _)
SpannedStmts(ss, toks, k) ==
    IF ss = <<>> THEN <<>>
    ELSE <<StmtExpr(Spanned(Head(ss).expr, toks, k))>>
            \o SpannedStmts(Tail(ss), toks, k + LeafCount(Head(ss).expr))

\* interpret(), line 25: the tree of parse(), every atom with the span of its token
InterpretParse ==
    /\ pc = "done"
    /\ result.kind = "ParseOk"
    /\ stmts' = SpannedStmts(result.tree, AtomTokensFrom(source_code, 0), 0)
    /\ stmt_idx' = 0
    /\ output' = <<>>
    /\ pc' = "interpret"
    /\ result' = NoCall
    /\ UNCHANGED <<source_code, byte_offset, peeked, history, expr, spans>>

RunNext == ParseNext \/ InterpretParse \/ InterpNext

\* the source texts of the run specification: one or two statements, each
\* a chain of the operands 1, 0 and "a" separated by / - + ==, with or
\* without a prefix `-`, ended by `;`
RunOperands == {<<"1">>, <<"0">>, <<"\"", "a", "\"">>}
RunOps == {<<"/">>, <<"-">>, <<"+">>, <<"=", "=">>}
RunToks(ops, opnds) ==
    [i \in 1..(2 * Len(ops) + 1) |-> IF i % 2 = 1 THEN opnds[(i + 1) \div 2] ELSE ops[i \div 2]]
RunStmts(n) ==
    UNION {{Flatten(pre \o RunToks(ops, opnds) \o << <<";">> >>) :
                pre \in {<<>>, << <<"-">> >>},
                ops \in [1..m -> RunOps],
                opnds \in [1..(m + 1) -> RunOperands]} : m \in 0..n}
RunTexts == RunStmts(MaxAllOps) \cup {<<"1", ";", " ">> \o t : t \in RunStmts(1)}

SpecRun == ParseInit(RunTexts) /\ [][RunNext]_vars

\* the span from the least offset to the greatest end of the atoms of ls
Hull(ls) ==
    LET lo == CHOOSE o \in {ls[i].span.offset : i \in 1..Len(ls)} :
                  \A i \in 1..Len(ls) : o <= ls[i].span.offset
        hi == CHOOSE h \in {SpanEnd(ls[i].span) : i \in 1..Len(ls)} :
                  \A i \in 1..Len(ls) : h >= SpanEnd(ls[i].span)
    IN SourceSpan(lo, hi - lo)

\* statement i has been evaluated and its own operator raised a runtime
\* error on operands that gave values
BinaryRaised(i) ==
    /\ stmts[i].expr.node = "Binary" /\ stmts[i].expr.op \in ArithOps
    /\ Accept(stmts[i].expr.left).ok /\ Accept(stmts[i].expr.right).ok
    /\ output[i].stream = "stderr"
NegRaised(i) ==
    /\ stmts[i].expr.node = "Unary" /\ stmts[i].expr.op = "Minus"
    /\ Accept(stmts[i].expr.expr).ok
    /\ output[i].stream = "stderr"

\* C26: the runtime error of a binary operator has the span
\* merge_span(left.span(), right.span()) of its operand expressions, that
\* of unary - the span of its operand expression; in the tree of a parsed
\* source each such span ends within the source.
C26_ErrorSpans ==
    pc \in {"interpret", "returned", "exited"} =>
        \A i \in 1..stmt_idx :
            /\ BinaryRaised(i) =>
                  /\ output[i].err.span = Hull(Leaves(stmts[i].expr))
                  /\ output[i].err.span = MergeSpan(Hull(Leaves(stmts[i].expr.left)),
                                                    Hull(Leaves(stmts[i].expr.right)))
            /\ NegRaised(i) => output[i].err.span = Hull(Leaves(stmts[i].expr.expr))
            /\ output[i].stream = "stderr" =>
                  SpanEnd(output[i].err.span) <= ByteLen(source_code)

\* 1; 1/0; has been evaluated: the second statement gave DivisionByZero
\* with the span of 1/0, bytes 3..6
C26_Witness ==
    /\ pc = "exited"
    /\ source_code = <<"1", ";", " ", "1", "/", "0", ";">>
    /\ BinaryRaised(2)
    /\ output[2].err.kind = DivisionByZero
    /\ output[2].err.span = SourceSpan(3, 3)

----------------------------------------------------------------------------
(* Claims about the progress of the lexer and of the parser *)

\* texts of ASCII characters: digits and dots, comments, strings, operators,
\* letters, whitespace and a character no token begins with
AsciiChars == {"1", ".", "/", "\n", "\""}
AsciiOddChars == {"@", "a", " ", "1"}
SpecAscii ==
    LexInit(Texts(AsciiChars, MaxSrcLen) \cup Texts(CommentChars, MaxSrcLen)
                \cup Texts(AsciiOddChars, MaxSrcLen))
        /\ [][LexNext]_vars

\* the calls of next() so far that returned Some
SomeCount == Cardinality({i \in 1..Len(history) : history[i].kind \in {"Ok", "Err"}})

CursorInRange == 0 <= byte_offset /\ byte_offset <= ByteLen(source_code)

\* what a call of next() or peek() does to the cursor
CursorStep ==
    /\ byte_offset' >= byte_offset
    /\ result'.kind # "Panic"
    /\ (IsNextCall /\ result'.kind \in {"Ok", "Err"}) => byte_offset' > byte_offset
    /\ (IsNextCall /\ result'.kind = "Ok") =>
          /\ result'.at >= byte_offset
          /\ result'.lexeme # <<>>
          /\ result'.at + ByteLen(result'.lexeme) = byte_offset'
          /\ result'.lexeme = ByteSlice(source_code, result'.at, byte_offset')

\* C27: on ASCII input the cursor stays between 0 and the length of the
\* source and never decreases; a next() that returns Some increases it; the
\* lexeme of an Ok token is the slice of the source that starts at or after
\* the previous cursor and ends at the new one; at most as many calls of
\* next() return Some as the source has bytes.
C27_Cursor ==
    /\ [](CursorInRange /\ SomeCount <= ByteLen(source_code))
    /\ [][CursorStep]_vars

\* 1. and 1 on the next line have been lexed to the end: 1, then `.`, then 1
\* from byte 3, then None
C27_Witness ==
    /\ source_code = <<"1", ".", "\n", "1">>
    /\ Len(history) = 4
    /\ history[1].kind = "Ok" /\ history[1].lexeme = <<"1">>
    /\ history[2].kind = "Ok" /\ history[2].at = 1
    /\ history[3].kind = "Ok" /\ history[3].at = 3
    /\ history[4] = NoneRes
    /\ byte_offset = 4

\* texts of a name, `;`, the prefix and postfix `!`, parentheses and `/`,
\* which is an infix operator and, doubled, begins a comment; longer texts
\* of statements without parentheses and `/`
ProgressChars == {"a", ";", "!", "(", ")", "/"}
StmtRunChars == {"a", ";", "!"}
ProgressTexts == Texts(ProgressChars, MaxOpsLen) \cup Texts(StmtRunChars, MaxSrcLen)

\* the loop of parse() has found a token left: parse_stmt can be called
StmtLeft == pc = "parse" /\ LexerPeek(source_code, byte_offset).res.kind # "None"

\* parse() runs on until it returns: a step that can be taken is taken.
\* For ParseStmtExpr this is weak fairness with StmtLeft, its guard, for ENABLED.
ParseFair ==
    /\ WF_vars(ParseStmtExpect)
    /\ WF_vars(ParseReturn)
    /\ ([]<>(~StmtLeft) \/ []<><<ParseStmtExpr>>_vars)

SpecProgress ==
    ParseInit(ProgressTexts) /\ [][ParseNext]_vars /\ ParseFair

\* the tokens next() gives from byte off on, up to the first call that gives none
RECURSIVE TokenCountFrom(_, _)
TokenCountOn(src, r) == IF r.res.kind = "Ok" THEN 1 + TokenCountFrom(src, r.off) ELSE 0
TokenCountFrom(src, off) == TokenCountOn(src, LexerNext(src, off))

\* the binding powers parse_expr is called with: 0 by parse_stmt and by a
\* group, the right binding power of a prefix or an infix operator otherwise
MinBps == {0, 1, 6, 8, 10, 11, 13}

\* a call that began at byte off and gave r has taken a token or failed
Consumes(r, off) == r.ok => r.off > off

\* the operator loop entered at byte off with lhs has taken a token or left
\* at once, with lhs as it was
ConsumesOrLeaves(r, off, lhs) == r.ok => (r.off > off \/ (r.off = off /\ r.expr = lhs))

ExprProgress ==
    \A off \in 0..ByteLen(source_code) : \A bp \in MinBps :
        /\ Consumes(ParseExpr(source_code, off, bp), off)
        /\ ConsumesOrLeaves(ParseLoop(source_code, off, IdentNode(<<"a">>), bp),
                            off, IdentNode(<<"a">>))

\* what a step of parse() does: parse_expr(0) and expect(`;`) each take a
\* token unless they fail, and only a whole parse_stmt adds a statement
StmtStep ==
    /\ (pc = "parse" /\ pc' = "expect") => byte_offset' > byte_offset
    /\ (pc = "expect" /\ pc' = "parse") =>
          byte_offset' > byte_offset /\ Len(stmts') = Len(stmts) + 1
    /\ stmts' # stmts => (pc = "expect" /\ pc' = "parse")

\* C28: parse() terminates; every parse_expr call takes at least one token
\* or returns an error, every turn of its operator loop takes a token or
\* leaves the loop, every parse_stmt takes at least one token or returns an
\* error, and there are at most as many statements as tokens.
C28_Terminates ==
    /\ [](pc = "done" => ExprProgress)
    /\ [](Len(stmts) <= TokenCountFrom(source_code, 0))
    /\ [][StmtStep]_vars
    /\ <>(pc = "done")

\* a;a; has been parsed to its end: two statements out of four tokens
C28_Witness ==
    /\ source_code = <<"a", ";", "a", ";">>
    /\ pc = "done"
    /\ result.kind = "ParseOk"
    /\ Len(stmts) = 2
    /\ byte_offset = 4

----------------------------------------------------------------------------
(* Claims about the span and the kind of a result *)

\* C29: the Atom an expression evaluates to has the span Expr::span gives
\* for the expression, which runs from the least offset to the greatest end
\* of its leaf atoms, whatever the operators, prefix operators and
\* parentheses included.
C29_ResultSpan ==
    (pc = "done" /\ result.ok) =>
        /\ result.atom.span = ExprSpan(expr)
        /\ ExprSpan(expr) = Hull(Leaves(expr))

\* -(x * y), x at bytes 4..6 and y at byte 0, has given a Number at bytes 0..6
C29_Witness ==
    /\ pc = "done" /\ result.ok
    /\ expr.node = "Unary" /\ expr.op = "Minus"
    /\ expr.expr.node = "Group"
    /\ expr.expr.expr.node = "Binary"
    /\ expr.expr.expr.left.span = SourceSpan(4, 2)
    /\ expr.expr.expr.right.span = SourceSpan(0, 1)
    /\ result.atom.kind = "Number"
    /\ result.atom.span = SourceSpan(0, 6)

\* C30: a Unary node whose operator is neither - nor ! and a Binary node
\* whose operator is neither arithmetic nor a comparison evaluate their
\* operands, pass an operand's error on, and otherwise give Nil.
C30_OtherOperators ==
    pc = "done" =>
        /\ (expr.node = "Unary" /\ expr.op \notin {"Minus", "Bang"}) =>
              IF OperandValue.ok
              THEN IsValue(result, "Nil") /\ result.atom.val = <<>>
              ELSE result = OperandValue
        /\ (expr.node = "Binary" /\ expr.op \notin ArithOps \cup CompareOps) =>
              IF ~LeftValue.ok THEN result = LeftValue
              ELSE IF ~RightValue.ok THEN result = RightValue
              ELSE IsValue(result, "Nil") /\ result.atom.val = <<>>

\* the tree of `print 5;` has given Nil
C30_Witness ==
    /\ pc = "done"
    /\ expr = PrintFive
    /\ OperandValue = EOk(Atom("Number", Rat(5, 1), SourceSpan(6, 1)))
    /\ result = EOk(Atom("Nil", <<>>, SourceSpan(6, 1)))

====
